---- MODULE Spec2Model ----
(***************************************************************************)
(* Model of the foal package.                                              *)
(*                                                                         *)
(* foal.dynamic_programming: the BioSeq / ScoreCell value types            *)
(* (biological_data.py) and the GlobalAlign / LocalAlign constructors      *)
(* (sequence_alignment.py).  A client picks two constructor arguments and  *)
(* four score parameters and then builds GlobalAlign(left, top),           *)
(* GlobalAlign(top, left) and LocalAlign(left, top), one constructor call  *)
(* at a time (the library is single-threaded).  Every loop iteration of a  *)
(* constructor is one step.  Python lists and strings are sequences of     *)
(* one-character strings; Python's 0-based indices are kept and converted  *)
(* in BioSeq_getitem.  Specification: Spec; SpecAnyOrder fills a           *)
(* GlobalAlign table cell by cell in any order that respects the cells'    *)
(* dependencies; SpecTraceBack follows the traceback loop of one           *)
(* GlobalAlign call under weak fairness, for termination.                  *)
(*                                                                         *)
(* binary_search (eagle/Search and src/foal/Search): SpecSearch, and       *)
(* SpecSearchFair for termination.                                         *)
(* foal.tree.binary_search_tree: SpecTree (one tree), SpecTreePair (two    *)
(* trees and their comparison).                                            *)
(* foal.graph: DirectedGraph and Dijkstra, SpecGraph.                      *)
(***************************************************************************)
EXTENDS Integers, Sequences, FiniteSets, TLC

\* Longest raw string the client passes to BioSeq().
MaxLen == 2

\* sequence_alignment.py:24-27
MATCH == 2
MISMATCH == -1
GAP_OPEN == -2
GAP_EXTEND == -1

\* Python's None; also the value of an attribute that was never assigned.
None == <<>>

\* Characters of the raw strings the client uses (one lower-case letter, one
\* upper-case letter and the gap character).
Letters == {"a", "C", "-"}

\* Score parameters the client passes: the defaults and one variation of each.
MatchScores == {MATCH, 1}
MismatchScores == {MISMATCH, -5}
GapOpenScores == {GAP_OPEN}
GapExtendScores == {GAP_EXTEND, -2}

RawStrings == UNION {[1..n -> Letters] : n \in 0..MaxLen}

Reverse(s) == [i \in 1..Len(s) |-> s[Len(s) + 1 - i]]

(***************************************************************************)
(* biological_data.py                                                      *)
(***************************************************************************)
\* str.upper on one character of the alphabet a, c, g, t.
UpperChar(ch) ==
    CASE ch = "a" -> "A"
      [] ch = "c" -> "C"
      [] ch = "g" -> "G"
      [] ch = "t" -> "T"
      [] OTHER -> ch

str_upper(s) == [i \in 1..Len(s) |-> UpperChar(s[i])]

\* A Python str value (not a BioSeq).
PyStr(s) == [type |-> "str", data |-> s]

\* BioSeq.__init__ applied to a Python str: stores data.upper().
BioSeq(s) == [type |-> "BioSeq", data |-> str_upper(s)]

\* A type check that lets a plain str through.
isinstance_BioSeq_or_str(x) == x.type \in {"BioSeq", "str"}

isinstance_BioSeq(x) == x.type = "BioSeq"

\* BioSeq.__len__
BioSeq_len(seq) == Len(seq.data)

\* BioSeq.__getitem__ with a non-negative 0-based index.
BioSeq_getitem(seq, index) == seq.data[index + 1]

\* ScoreCell.__init__; prev_cell is the matrix position of the predecessor
\* cell object (cells are never replaced once stored) or None.
ScoreCell(score, row, col, prev_cell) ==
    [is_cell |-> TRUE, score |-> score, row |-> row, column |-> col,
     prev_cell |-> prev_cell]

\* An entry of np.zeros(..., dtype=ScoreCell): the integer 0, not a ScoreCell.
ZeroEntry ==
    [is_cell |-> FALSE, score |-> 0, row |-> 0, column |-> 0,
     prev_cell |-> None]

np_zeros(rows, cols) ==
    [p \in (0..(rows - 1)) \X (0..(cols - 1)) |-> ZeroEntry]

\* max() that keeps the last maximal candidate instead of the first.
max_last(cands) ==
    LET best == CHOOSE i \in DOMAIN cands :
                    /\ \A j \in DOMAIN cands : cands[j][1] <= cands[i][1]
                    /\ \A j \in DOMAIN cands : j > i => cands[j][1] < cands[i][1]
    IN cands[best]

\* max(scores.items(), key=lambda x: x[1][0])[1]: the first candidate, in
\* the dict's insertion order, whose score is maximal.
max_first(cands) ==
    LET best == CHOOSE i \in DOMAIN cands :
                    /\ \A j \in DOMAIN cands : cands[j][1] <= cands[i][1]
                    /\ \A j \in DOMAIN cands : j < i => cands[j][1] < cands[i][1]
    IN cands[best]

\* The alignment client's arguments and its GlobalAlign / LocalAlign objects.
VARIABLES seq_left, seq_top, scores, global_align, local_align

\* The objects of the other clients: a score table filled in dependency
\* order, a binary_search call, the BinarySearchTree objects, and a
\* DirectedGraph with its Dijkstra object.  Each client has a specification
\* of its own, in which the objects of the other clients do not exist (None).
VARIABLES any_order, search, bst, dij

other_than_align == <<any_order, search, bst, dij>>

vars == <<seq_left, seq_top, scores, global_align, local_align,
          any_order, search, bst, dij>>

(***************************************************************************)
(* GlobalAlign                                                             *)
(***************************************************************************)
\* _is_gap_open that recognises a running gap along the columns only.
GlobalAlign_is_gap_open_columns_only(self, row, col, tmp_ptr_cell) ==
    IF tmp_ptr_cell.prev_cell = None
    THEN TRUE
    ELSE LET ptr_cell_of_ptr_cell == self.score_table[tmp_ptr_cell.prev_cell]
             diff_col_ptr == tmp_ptr_cell.column - ptr_cell_of_ptr_cell.column
             diff_col_cur == col - tmp_ptr_cell.column
         IN (diff_col_ptr = 1) /\ (diff_col_cur = 1)

\* GlobalAlign._is_gap_open
GlobalAlign_is_gap_open(self, row, col, tmp_ptr_cell) ==
    IF tmp_ptr_cell.prev_cell = None
    THEN TRUE
    ELSE LET ptr_cell_of_ptr_cell == self.score_table[tmp_ptr_cell.prev_cell]
             diff_row_ptr == tmp_ptr_cell.row - ptr_cell_of_ptr_cell.row
             diff_col_ptr == tmp_ptr_cell.column - ptr_cell_of_ptr_cell.column
             diff_row_cur == row - tmp_ptr_cell.row
             diff_col_cur == col - tmp_ptr_cell.column
         IN (diff_col_ptr + diff_row_ptr = 1) /\ (diff_col_cur + diff_row_cur = 1)

\* The dict `scores` whose 'left' entry points at the slot of the cell being
\* computed instead of at its left neighbour.
GlobalAlign_scores_left_in_place(self, row, col) ==
    LET top_cell == self.score_table[<<row - 1, col>>]
        left_cell == self.score_table[<<row, col - 1>>]
        top_left_cell == self.score_table[<<row - 1, col - 1>>]
        score_from_left ==
            IF GlobalAlign_is_gap_open(self, row, col, left_cell)
            THEN left_cell.score + self.gap_open
            ELSE left_cell.score + self.gap_extend
        score_from_top ==
            IF GlobalAlign_is_gap_open(self, row, col, top_cell)
            THEN top_cell.score + self.gap_open
            ELSE top_cell.score + self.gap_extend
        score_from_top_left ==
            IF BioSeq_getitem(self.seq_left, row - 1)
                   = BioSeq_getitem(self.seq_top, col - 1)
            THEN top_left_cell.score + self.match
            ELSE top_left_cell.score + self.mismatch
    IN << <<score_from_top_left, <<row - 1, col - 1>> >>,
          <<score_from_top, <<row - 1, col>> >>,
          <<score_from_left, <<row, col>> >> >>

\* The dict `scores` built by GlobalAlign._cal_score_non_zero_index, in insertion
\* order top_left, top, left: <<score, position of the neighbour cell>>.
GlobalAlign_scores(self, row, col) ==
    LET top_cell == self.score_table[<<row - 1, col>>]
        left_cell == self.score_table[<<row, col - 1>>]
        top_left_cell == self.score_table[<<row - 1, col - 1>>]
        score_from_left ==
            IF GlobalAlign_is_gap_open(self, row, col, left_cell)
            THEN left_cell.score + self.gap_open
            ELSE left_cell.score + self.gap_extend
        score_from_top ==
            IF GlobalAlign_is_gap_open(self, row, col, top_cell)
            THEN top_cell.score + self.gap_open
            ELSE top_cell.score + self.gap_extend
        score_from_top_left ==
            IF BioSeq_getitem(self.seq_left, row - 1)
                   = BioSeq_getitem(self.seq_top, col - 1)
            THEN top_left_cell.score + self.match
            ELSE top_left_cell.score + self.mismatch
    IN << <<score_from_top_left, <<row - 1, col - 1>> >>,
          <<score_from_top, <<row - 1, col>> >>,
          <<score_from_left, <<row, col - 1>> >> >>

\* _cal_score_non_zero_index whose dict lists 'top' before 'top_left'.
GlobalAlign_cal_score_non_zero_index_top_first(self, row, col) ==
    LET sc == GlobalAlign_scores(self, row, col)
    IN max_first(<<sc[2], sc[1], sc[3]>>)

\* GlobalAlign._cal_score_non_zero_index: <<match_score, prev_ptr>>
GlobalAlign_cal_score_non_zero_index(self, row, col) ==
    max_first(GlobalAlign_scores(self, row, col))

\* _cal_score_of_one_cell that scores the top row and the left column but
\* does not link their cells to a predecessor.
GlobalAlign_cal_score_of_one_cell_unlinked_edges(self, row, col) ==
    IF row = 0 /\ col = 0
    THEN <<0, None>>
    ELSE IF row = 0 /\ col # 0
    THEN <<self.score_table[<<row, col - 1>>].score + self.gap_open, None>>
    ELSE IF row # 0 /\ col = 0
    THEN <<self.score_table[<<row - 1, col>>].score + self.gap_open, None>>
    ELSE GlobalAlign_cal_score_non_zero_index(self, row, col)

\* GlobalAlign._cal_score_of_one_cell: <<match_score, prev_ptr>>
GlobalAlign_cal_score_of_one_cell(self, row, col) ==
    IF row = 0 /\ col = 0
    THEN <<0, None>>
    ELSE IF row = 0 /\ col # 0
    THEN LET left_cell == self.score_table[<<row, col - 1>>]
         IN IF GlobalAlign_is_gap_open(self, row, col, left_cell)
            THEN <<left_cell.score + self.gap_open, <<row, col - 1>> >>
            ELSE <<left_cell.score + self.gap_extend, <<row, col - 1>> >>
    ELSE IF row # 0 /\ col = 0
    THEN LET top_cell == self.score_table[<<row - 1, col>>]
         IN IF GlobalAlign_is_gap_open(self, row, col, top_cell)
            THEN <<top_cell.score + self.gap_open, <<row - 1, col>> >>
            ELSE <<top_cell.score + self.gap_extend, <<row - 1, col>> >>
    ELSE GlobalAlign_cal_score_non_zero_index(self, row, col)

\* GlobalAlign.get_align_results: <<left alignment, top alignment>>
GlobalAlign_get_align_results(self) == <<self.align_left, self.align_top>>

\* GlobalAlign.display: the three lines it prints, as lists of characters
\* (top alignment, match signs, left alignment).
GlobalAlign_display(self) ==
    LET left_aling == GlobalAlign_get_align_results(self)[1]
        top_aling == GlobalAlign_get_align_results(self)[2]
        match_sign == [i \in 1..Len(left_aling) |->
                          IF left_aling[i] = top_aling[i] THEN "|" ELSE " "]
    IN <<top_aling, match_sign, left_aling>>

\* A GlobalAlign object on which __init__ has not run yet.
GlobalAlign_new ==
    [pc |-> "new", error |-> "", seq_left |-> None, seq_top |-> None,
     score_table |-> None, match |-> 0, mismatch |-> 0, gap_open |-> 0,
     gap_extend |-> 0, row |-> 0, col |-> 0, cur_cell |-> None,
     seq_left_aling |-> <<>>, seq_top_aling |-> <<>>,
     align_left |-> None, align_top |-> None]

\* The arguments of the two GlobalAlign calls: object 1 is
\* GlobalAlign(seq_left, seq_top), object 2 is GlobalAlign(seq_top, seq_left).
GlobalArgLeft(i) == IF i = 1 THEN seq_left ELSE seq_top
GlobalArgTop(i) == IF i = 1 THEN seq_top ELSE seq_left

\* A constructor call is in progress.
Running(obj) == obj.pc \in {"cal_score_table", "trace_back"}
Idle == (\A i \in 1..2 : ~Running(global_align[i])) /\ ~Running(local_align)

\* __init__ that stores the match score as the mismatch score too.
GlobalAlign_init_mismatch_from_match(i) ==
    /\ Idle
    /\ global_align[i].pc = "new"
    /\ IF ~isinstance_BioSeq(GlobalArgLeft(i)) \/ ~isinstance_BioSeq(GlobalArgTop(i))
       THEN global_align' = [global_align EXCEPT ![i] =
                [@ EXCEPT !.pc = "raised",
                          !.error = "TypeError: Object should be bd.BioSeq."]]
       ELSE global_align' = [global_align EXCEPT ![i] =
                [@ EXCEPT !.pc = "cal_score_table",
                          !.seq_left = GlobalArgLeft(i),
                          !.seq_top = GlobalArgTop(i),
                          !.score_table = np_zeros(BioSeq_len(GlobalArgLeft(i)) + 1,
                                                   BioSeq_len(GlobalArgTop(i)) + 1),
                          !.match = scores.match,
                          !.mismatch = scores.match,
                          !.gap_open = scores.gap_open,
                          !.gap_extend = scores.gap_extend,
                          !.row = 0, !.col = 0]]
    /\ UNCHANGED <<seq_left, seq_top, scores, local_align, other_than_align>>

\* GlobalAlign.__init__ up to the call of _cal_score_table.
GlobalAlign_init(i) ==
    /\ Idle
    /\ global_align[i].pc = "new"
    /\ IF ~isinstance_BioSeq(GlobalArgLeft(i)) \/ ~isinstance_BioSeq(GlobalArgTop(i))
       THEN global_align' = [global_align EXCEPT ![i] =
                [@ EXCEPT !.pc = "raised",
                          !.error = "TypeError: Object should be bd.BioSeq."]]
       ELSE global_align' = [global_align EXCEPT ![i] =
                [@ EXCEPT !.pc = "cal_score_table",
                          !.seq_left = GlobalArgLeft(i),
                          !.seq_top = GlobalArgTop(i),
                          !.score_table = np_zeros(BioSeq_len(GlobalArgLeft(i)) + 1,
                                                   BioSeq_len(GlobalArgTop(i)) + 1),
                          !.match = scores.match,
                          !.mismatch = scores.mismatch,
                          !.gap_open = scores.gap_open,
                          !.gap_extend = scores.gap_extend,
                          !.row = 0, !.col = 0]]
    /\ UNCHANGED <<seq_left, seq_top, scores, local_align, other_than_align>>

\* One iteration of the loops of GlobalAlign._cal_score_table; after the last
\* cell __init__ goes on to _trace_back, which starts at score_table[-1, -1].
GlobalAlign_cal_score_table(i) ==
    LET self == global_align[i]
        res == GlobalAlign_cal_score_of_one_cell(self, self.row, self.col)
        cell == ScoreCell(res[1], self.row, self.col, res[2])
        table == [self.score_table EXCEPT ![<<self.row, self.col>>] = cell]
        last_row == BioSeq_len(self.seq_left)
        last_col == BioSeq_len(self.seq_top)
    IN /\ self.pc = "cal_score_table"
       /\ global_align' = [global_align EXCEPT ![i] =
            IF self.col < last_col
            THEN [self EXCEPT !.score_table = table, !.col = self.col + 1]
            ELSE IF self.row < last_row
            THEN [self EXCEPT !.score_table = table, !.row = self.row + 1,
                              !.col = 0]
            ELSE [self EXCEPT !.score_table = table, !.pc = "trace_back",
                              !.cur_cell = <<last_row, last_col>>,
                              !.seq_left_aling = <<>>,
                              !.seq_top_aling = <<>>]]
       /\ UNCHANGED <<seq_left, seq_top, scores, local_align, other_than_align>>

\* _trace_back whose step to the left neighbour appends '-' to both lists.
GlobalAlign_trace_back_gap_on_both_sides(i) ==
    LET self == global_align[i]
        cur_cell == self.score_table[self.cur_cell]
        prev_cell == self.score_table[cur_cell.prev_cell]
    IN /\ self.pc = "trace_back"
       /\ global_align' = [global_align EXCEPT ![i] =
            IF cur_cell.prev_cell = None
            THEN [self EXCEPT !.pc = "done",
                              !.align_left = Reverse(self.seq_left_aling),
                              !.align_top = Reverse(self.seq_top_aling)]
            ELSE IF cur_cell.row = prev_cell.row + 1
                    /\ cur_cell.column = prev_cell.column + 1
            THEN [self EXCEPT
                    !.seq_left_aling = Append(@, BioSeq_getitem(self.seq_left, cur_cell.row - 1)),
                    !.seq_top_aling = Append(@, BioSeq_getitem(self.seq_top, cur_cell.column - 1)),
                    !.cur_cell = cur_cell.prev_cell]
            ELSE IF cur_cell.row = prev_cell.row + 1
                    /\ cur_cell.column = prev_cell.column
            THEN [self EXCEPT
                    !.seq_left_aling = Append(@, BioSeq_getitem(self.seq_left, cur_cell.row - 1)),
                    !.seq_top_aling = Append(@, "-"),
                    !.cur_cell = cur_cell.prev_cell]
            ELSE IF cur_cell.row = prev_cell.row
                    /\ cur_cell.column = prev_cell.column + 1
            THEN [self EXCEPT
                    !.seq_left_aling = Append(@, "-"),
                    !.seq_top_aling = Append(@, "-"),
                    !.cur_cell = cur_cell.prev_cell]
            ELSE [self EXCEPT !.cur_cell = cur_cell.prev_cell]]
       /\ UNCHANGED <<seq_left, seq_top, scores, local_align, other_than_align>>

\* One iteration of the while loop of GlobalAlign._trace_back, or its exit
\* (reverse both lists and store them).
GlobalAlign_trace_back(i) ==
    LET self == global_align[i]
        cur_cell == self.score_table[self.cur_cell]
        prev_cell == self.score_table[cur_cell.prev_cell]
    IN /\ self.pc = "trace_back"
       /\ global_align' = [global_align EXCEPT ![i] =
            IF cur_cell.prev_cell = None
            THEN [self EXCEPT !.pc = "done",
                              !.align_left = Reverse(self.seq_left_aling),
                              !.align_top = Reverse(self.seq_top_aling)]
            ELSE IF cur_cell.row = prev_cell.row + 1
                    /\ cur_cell.column = prev_cell.column + 1
            THEN [self EXCEPT
                    !.seq_left_aling = Append(@, BioSeq_getitem(self.seq_left, cur_cell.row - 1)),
                    !.seq_top_aling = Append(@, BioSeq_getitem(self.seq_top, cur_cell.column - 1)),
                    !.cur_cell = cur_cell.prev_cell]
            ELSE IF cur_cell.row = prev_cell.row + 1
                    /\ cur_cell.column = prev_cell.column
            THEN [self EXCEPT
                    !.seq_left_aling = Append(@, BioSeq_getitem(self.seq_left, cur_cell.row - 1)),
                    !.seq_top_aling = Append(@, "-"),
                    !.cur_cell = cur_cell.prev_cell]
            ELSE IF cur_cell.row = prev_cell.row
                    /\ cur_cell.column = prev_cell.column + 1
            THEN [self EXCEPT
                    !.seq_left_aling = Append(@, "-"),
                    !.seq_top_aling = Append(@, BioSeq_getitem(self.seq_top, cur_cell.column - 1)),
                    !.cur_cell = cur_cell.prev_cell]
            ELSE [self EXCEPT !.cur_cell = cur_cell.prev_cell]]
       /\ UNCHANGED <<seq_left, seq_top, scores, local_align, other_than_align>>

(***************************************************************************)
(* LocalAlign                                                              *)
(***************************************************************************)
\* LocalAlign._is_gap_open
LocalAlign_is_gap_open(self, row, col, tmp_ptr_cell) ==
    IF tmp_ptr_cell.prev_cell = None
    THEN TRUE
    ELSE LET ptr_cell_of_ptr_cell == self.score_table[tmp_ptr_cell.prev_cell]
             diff_row_ptr == tmp_ptr_cell.row - ptr_cell_of_ptr_cell.row
             diff_col_ptr == tmp_ptr_cell.column - ptr_cell_of_ptr_cell.column
             diff_row_cur == row - tmp_ptr_cell.row
             diff_col_cur == col - tmp_ptr_cell.column
         IN (diff_col_ptr + diff_row_ptr = 1) /\ (diff_col_cur + diff_row_cur = 1)

\* The dict `scores` built by LocalAlign._cal_score_non_zero_index, in insertion
\* order top_left, top, left: <<score, position of the neighbour cell>>.
LocalAlign_scores(self, row, col) ==
    LET top_cell == self.score_table[<<row - 1, col>>]
        left_cell == self.score_table[<<row, col - 1>>]
        top_left_cell == self.score_table[<<row - 1, col - 1>>]
        score_from_left ==
            IF LocalAlign_is_gap_open(self, row, col, left_cell)
            THEN left_cell.score + self.gap_open
            ELSE left_cell.score + self.gap_extend
        score_from_top ==
            IF LocalAlign_is_gap_open(self, row, col, top_cell)
            THEN top_cell.score + self.gap_open
            ELSE top_cell.score + self.gap_extend
        score_from_top_left ==
            IF BioSeq_getitem(self.seq_left, row - 1)
                   = BioSeq_getitem(self.seq_top, col - 1)
            THEN top_left_cell.score + self.match
            ELSE top_left_cell.score + self.mismatch
    IN << <<score_from_top_left, <<row - 1, col - 1>> >>,
          <<score_from_top, <<row - 1, col>> >>,
          <<score_from_left, <<row, col - 1>> >> >>

\* LocalAlign._cal_score_non_zero_index: <<match_score, prev_ptr>>
LocalAlign_cal_score_non_zero_index(self, row, col) ==
    max_first(LocalAlign_scores(self, row, col))

\* _cal_score_of_one_cell that charges a gap along the top row and the left
\* column, as the global aligner does.
LocalAlign_cal_score_of_one_cell_global_edges(self, row, col) ==
    IF row = 0 /\ col = 0
    THEN <<0, None>>
    ELSE IF row = 0
    THEN <<self.score_table[<<row, col - 1>>].score + self.gap_open, None>>
    ELSE IF col = 0
    THEN <<self.score_table[<<row - 1, col>>].score + self.gap_open, None>>
    ELSE LET res == LocalAlign_cal_score_non_zero_index(self, row, col)
         IN IF res[1] < 0 THEN <<0, None>> ELSE res

\* LocalAlign._cal_score_of_one_cell: <<match_score, prev_ptr>>
LocalAlign_cal_score_of_one_cell(self, row, col) ==
    IF row = 0 \/ col = 0
    THEN <<0, None>>
    ELSE LET res == LocalAlign_cal_score_non_zero_index(self, row, col)
         IN IF res[1] < 0 THEN <<0, None>> ELSE res

\* LocalAlign._store_max_score on the list max_score_cell (positions of the
\* stored cell objects).  ScoreCell defines no comparison methods, so on a
\* non-empty list `max(self._max_score_cell) < cur_cell` raises TypeError
\* (max of a one-element list returns the element without comparing; the
\* list never grows past one element).  The clear/append branches behind
\* that comparison are never entered.
LocalAlign_store_max_score(max_score_cell, cur_cell) ==
    IF Len(max_score_cell) = 0
    THEN [raised |-> FALSE, max_score_cell |-> Append(max_score_cell, cur_cell)]
    ELSE [raised |-> TRUE, max_score_cell |-> max_score_cell]

\* The while loop of LocalAlign._trace_back_start_one_cell, from the cell at
\* position cur: the end point and the two accumulated lists.
RECURSIVE LocalAlign_trace_back_loop(_, _, _, _)
LocalAlign_trace_back_loop(self, cur, seq_left_aling, seq_top_aling) ==
    LET cur_cell == self.score_table[cur]
        prev_cell == self.score_table[cur_cell.prev_cell]
    IN IF cur_cell.prev_cell = None
       THEN [end_point |-> cur, left |-> seq_left_aling, top |-> seq_top_aling]
       ELSE IF cur_cell.row = prev_cell.row + 1
               /\ cur_cell.column = prev_cell.column + 1
       THEN LocalAlign_trace_back_loop(self, cur_cell.prev_cell,
                Append(seq_left_aling, BioSeq_getitem(self.seq_left, cur_cell.row - 1)),
                Append(seq_top_aling, BioSeq_getitem(self.seq_top, cur_cell.column - 1)))
       ELSE IF cur_cell.row = prev_cell.row + 1
               /\ cur_cell.column = prev_cell.column
       THEN LocalAlign_trace_back_loop(self, cur_cell.prev_cell,
                Append(seq_left_aling, BioSeq_getitem(self.seq_left, cur_cell.row - 1)),
                Append(seq_top_aling, "-"))
       ELSE IF cur_cell.row = prev_cell.row
               /\ cur_cell.column = prev_cell.column + 1
       THEN LocalAlign_trace_back_loop(self, cur_cell.prev_cell,
                Append(seq_left_aling, "-"),
                Append(seq_top_aling, BioSeq_getitem(self.seq_top, cur_cell.column - 1)))
       ELSE LocalAlign_trace_back_loop(self, cur_cell.prev_cell,
                seq_left_aling, seq_top_aling)

\* LocalAlign._extend_align_sequences: <<left_align, top_align>>
LocalAlign_extend_align_sequences(self, start_cell, end_cell, left_align, top_align) ==
    LET len_left == BioSeq_len(self.seq_left)
        len_top == BioSeq_len(self.seq_top)
        distance_start_right == len_top - start_cell.column
        distance_start_buttom == len_left - start_cell.row
        distance_end_left == end_cell.column - 1
        distance_end_top == end_cell.row - 1
        \* k-th iteration of the loops before the reverse: idx and the
        \* other index both have moved k - 1 steps down
        before_left ==
            IF distance_end_top <= distance_end_left
            THEN [k \in 1..end_cell.column |->
                    IF end_cell.row - k >= 0
                    THEN BioSeq_getitem(self.seq_left, end_cell.row - k)
                    ELSE "-"]
            ELSE [k \in 1..end_cell.row |->
                    BioSeq_getitem(self.seq_left, end_cell.row - k)]
        before_top ==
            IF distance_end_top <= distance_end_left
            THEN [k \in 1..end_cell.column |->
                    BioSeq_getitem(self.seq_top, end_cell.column - k)]
            ELSE [k \in 1..end_cell.row |->
                    IF end_cell.column - k >= 0
                    THEN BioSeq_getitem(self.seq_top, end_cell.column - k)
                    ELSE "-"]
        \* k-th iteration of the loops after the reverse
        after_left ==
            IF distance_start_buttom <= distance_start_right
            THEN [k \in 1..(len_top - start_cell.column) |->
                    IF start_cell.row + k - 1 < len_left
                    THEN BioSeq_getitem(self.seq_left, start_cell.row + k - 1)
                    ELSE "-"]
            ELSE [k \in 1..(len_left - start_cell.row) |->
                    BioSeq_getitem(self.seq_left, start_cell.row + k - 1)]
        after_top ==
            IF distance_start_buttom <= distance_start_right
            THEN [k \in 1..(len_top - start_cell.column) |->
                    BioSeq_getitem(self.seq_top, start_cell.column + k - 1)]
            ELSE [k \in 1..(len_left - start_cell.row) |->
                    IF start_cell.column + k - 1 < len_top
                    THEN BioSeq_getitem(self.seq_top, start_cell.column + k - 1)
                    ELSE "-"]
    IN << Reverse(left_align \o before_left) \o after_left,
          Reverse(top_align \o before_top) \o after_top >>

\* LocalAlign._trace_back_start_one_cell: <<seq_left_aling, seq_top_aling>>
LocalAlign_trace_back_start_one_cell(self, start_cell) ==
    LET walk == LocalAlign_trace_back_loop(self, start_cell, <<>>, <<>>)
    IN LocalAlign_extend_align_sequences(self, self.score_table[start_cell],
            self.score_table[walk.end_point], walk.left, walk.top)

\* LocalAlign.get_align_results
LocalAlign_get_align_results(self) == self.best_align

\* LocalAlign._display_one_best_align: the three lines it prints, as lists
\* of characters (top alignment, match signs, left alignment).
LocalAlign_display_one_best_align(align_seqs) ==
    LET left_aling == align_seqs[1]
        top_aling == align_seqs[2]
        match_sign == [i \in 1..Len(left_aling) |->
                          IF left_aling[i] = top_aling[i] THEN "|" ELSE " "]
    IN <<top_aling, match_sign, left_aling>>

\* LocalAlign.display: what it prints for each best alignment, in order.
LocalAlign_display(self) ==
    [k \in 1..Len(LocalAlign_get_align_results(self)) |->
        LocalAlign_display_one_best_align(LocalAlign_get_align_results(self)[k])]

\* A LocalAlign object on which __init__ has not run yet.
LocalAlign_new ==
    [pc |-> "new", error |-> "", seq_left |-> None, seq_top |-> None,
     score_table |-> None, match |-> 0, mismatch |-> 0, gap_open |-> 0,
     gap_extend |-> 0, row |-> 0, col |-> 0, max_score_cell |-> None,
     best_align |-> None]

\* LocalAlign.__init__ up to the call of _cal_score_table.
LocalAlign_init ==
    /\ Idle
    /\ local_align.pc = "new"
    /\ IF ~isinstance_BioSeq(seq_left) \/ ~isinstance_BioSeq(seq_top)
       THEN local_align' = [local_align EXCEPT
                !.pc = "raised",
                !.error = "TypeError: Object should be bd.BioSeq."]
       ELSE local_align' = [local_align EXCEPT
                !.pc = "cal_score_table",
                !.seq_left = seq_left,
                !.seq_top = seq_top,
                !.score_table = np_zeros(BioSeq_len(seq_left) + 1,
                                         BioSeq_len(seq_top) + 1),
                !.match = scores.match,
                !.mismatch = scores.mismatch,
                !.gap_open = scores.gap_open,
                !.gap_extend = scores.gap_extend,
                !.max_score_cell = <<>>,
                !.row = 0, !.col = 0]
    /\ UNCHANGED <<seq_left, seq_top, scores, global_align, other_than_align>>

\* One iteration of the loops of LocalAlign._cal_score_table, including its
\* call of _store_max_score; a TypeError raised there leaves __init__.
LocalAlign_cal_score_table ==
    LET self == local_align
        res == LocalAlign_cal_score_of_one_cell(self, self.row, self.col)
        cur_cell == ScoreCell(res[1], self.row, self.col, res[2])
        table == [self.score_table EXCEPT ![<<self.row, self.col>>] = cur_cell]
        stored == LocalAlign_store_max_score(self.max_score_cell,
                                             <<self.row, self.col>>)
        last_row == BioSeq_len(self.seq_left)
        last_col == BioSeq_len(self.seq_top)
    IN /\ self.pc = "cal_score_table"
       /\ local_align' =
            IF stored.raised
            THEN [self EXCEPT !.score_table = table, !.pc = "raised",
                    !.error = "TypeError: '<' not supported between instances of 'ScoreCell' and 'ScoreCell'"]
            ELSE IF self.col < last_col
            THEN [self EXCEPT !.score_table = table,
                              !.max_score_cell = stored.max_score_cell,
                              !.col = self.col + 1]
            ELSE IF self.row < last_row
            THEN [self EXCEPT !.score_table = table,
                              !.max_score_cell = stored.max_score_cell,
                              !.row = self.row + 1, !.col = 0]
            ELSE [self EXCEPT !.score_table = table,
                              !.max_score_cell = stored.max_score_cell,
                              !.pc = "trace_back"]
       /\ UNCHANGED <<seq_left, seq_top, scores, global_align, other_than_align>>

\* LocalAlign._trace_back: one alignment per stored maximal cell.
LocalAlign_trace_back ==
    /\ local_align.pc = "trace_back"
    /\ local_align' = [local_align EXCEPT
            !.pc = "done",
            !.best_align = [k \in 1..Len(local_align.max_score_cell) |->
                LocalAlign_trace_back_start_one_cell(local_align,
                    local_align.max_score_cell[k])]]
    /\ UNCHANGED <<seq_left, seq_top, scores, global_align, other_than_align>>

(***************************************************************************)
(* The client                                                              *)
(***************************************************************************)
\* What the client may pass instead of a BioSeq: a plain Python str.
NonSequenceArgs == {PyStr(<<>>), PyStr(<<"a", "C">>)}

SequenceArgs == {BioSeq(s) : s \in RawStrings} \cup NonSequenceArgs

ScoreParams ==
    [match : MatchScores, mismatch : MismatchScores,
     gap_open : GapOpenScores, gap_extend : GapExtendScores]

DefaultScores ==
    [match |-> MATCH, mismatch |-> MISMATCH, gap_open |-> GAP_OPEN,
     gap_extend |-> GAP_EXTEND]

\* The docstring example of GlobalAlign (sequence_alignment.py:47-54).
DocLeft == BioSeq(<<"g", "a", "t", "t", "a", "g", "a">>)
DocTop == BioSeq(<<"g", "c", "a", "t", "g", "c", "t">>)

Init ==
    /\ \/ /\ seq_left \in SequenceArgs
          /\ seq_top \in SequenceArgs
          /\ scores \in ScoreParams
       \/ /\ seq_left = DocLeft
          /\ seq_top = DocTop
          /\ scores = DefaultScores
    /\ global_align = [i \in 1..2 |-> GlobalAlign_new]
    /\ local_align = LocalAlign_new
    /\ any_order = None
    /\ search = None
    /\ bst = None
    /\ dij = None

\* The constructor call on the object has returned or raised.
Ended(obj) == obj.pc \in {"done", "raised"}

\* The client makes its three constructor calls one after the other:
\* GlobalAlign(seq_left, seq_top), GlobalAlign(seq_top, seq_left), LocalAlign.
Next ==
    \/ \E i \in 1..2 :
          (i = 2 => Ended(global_align[1])) /\ GlobalAlign_init(i)
    \/ \E i \in 1..2 : GlobalAlign_cal_score_table(i)
    \/ \E i \in 1..2 : GlobalAlign_trace_back(i)
    \/ Ended(global_align[2]) /\ LocalAlign_init
    \/ LocalAlign_cal_score_table
    \/ LocalAlign_trace_back

Spec == Init /\ [][Next]_vars

(***************************************************************************)
(* A GlobalAlign score table filled in an order other than row-major       *)
(***************************************************************************)
\* The GlobalAlign object __init__ hands to _cal_score_table.
GlobalAlign_object(left, top, params) ==
    [GlobalAlign_new EXCEPT
        !.pc = "cal_score_table",
        !.seq_left = left,
        !.seq_top = top,
        !.score_table = np_zeros(BioSeq_len(left) + 1, BioSeq_len(top) + 1),
        !.match = params.match,
        !.mismatch = params.mismatch,
        !.gap_open = params.gap_open,
        !.gap_extend = params.gap_extend]

\* The table with cell (row, col) computed and stored.
GlobalAlign_store_cell(self, row, col) ==
    LET res == GlobalAlign_cal_score_of_one_cell(self, row, col)
    IN [self.score_table EXCEPT
            ![<<row, col>>] = ScoreCell(res[1], row, col, res[2])]

\* The loops of GlobalAlign._cal_score_table from cell (row, col) to the
\* last cell: the table they leave.
RECURSIVE GlobalAlign_cal_score_table_from(_, _, _)
GlobalAlign_cal_score_table_from(self, row, col) ==
    LET table == GlobalAlign_store_cell(self, row, col)
        next == [self EXCEPT !.score_table = table]
    IN IF col < BioSeq_len(self.seq_top)
       THEN GlobalAlign_cal_score_table_from(next, row, col + 1)
       ELSE IF row < BioSeq_len(self.seq_left)
       THEN GlobalAlign_cal_score_table_from(next, row + 1, 0)
       ELSE table

\* The neighbours of an interior cell without its left neighbour.
Dependencies_top_only(row, col) ==
    IF row = 0 /\ col = 0
    THEN {}
    ELSE IF row = 0 /\ col # 0
    THEN {<<row, col - 1>>}
    ELSE IF row # 0 /\ col = 0
    THEN {<<row - 1, col>>}
    ELSE {<<row - 1, col>>, <<row - 1, col - 1>>}

\* The cells GlobalAlign._cal_score_of_one_cell reads from the table when it
\* computes cell (row, col).
Dependencies(row, col) ==
    IF row = 0 /\ col = 0
    THEN {}
    ELSE IF row = 0 /\ col # 0
    THEN {<<row, col - 1>>}
    ELSE IF row # 0 /\ col = 0
    THEN {<<row - 1, col>>}
    ELSE {<<row - 1, col>>, <<row, col - 1>>, <<row - 1, col - 1>>}

\* The body of the loops of _cal_score_table for one cell, run for any cell
\* not computed yet whose dependencies are.
AnyOrder_cal_score_of_one_cell(p) ==
    LET self == any_order.self
    IN /\ p \in DOMAIN self.score_table
       /\ ~self.score_table[p].is_cell
       /\ \A q \in Dependencies(p[1], p[2]) : self.score_table[q].is_cell
       /\ any_order' = [any_order EXCEPT
                !.self.score_table = GlobalAlign_store_cell(self, p[1], p[2])]
       /\ UNCHANGED <<seq_left, seq_top, scores, global_align, local_align,
                      search, bst, dij>>

\* Two GlobalAlign objects on the same arguments: the table of `self` is
\* still empty, and row_major is the table _cal_score_table computes.
AnyOrderInit ==
    /\ seq_left \in {x \in SequenceArgs : isinstance_BioSeq(x)}
    /\ seq_top \in {x \in SequenceArgs : isinstance_BioSeq(x)}
    /\ scores \in ScoreParams
    /\ any_order =
          [self |-> GlobalAlign_object(seq_left, seq_top, scores),
           row_major |-> GlobalAlign_cal_score_table_from(
                             GlobalAlign_object(seq_left, seq_top, scores), 0, 0)]
    /\ global_align = [i \in 1..2 |-> GlobalAlign_new]
    /\ local_align = LocalAlign_new
    /\ search = None
    /\ bst = None
    /\ dij = None

AnyOrderNext ==
    \E p \in (0..MaxLen) \X (0..MaxLen) : AnyOrder_cal_score_of_one_cell(p)

SpecAnyOrder == AnyOrderInit /\ [][AnyOrderNext]_vars

(***************************************************************************)
(* One GlobalAlign(seq_left, seq_top) call whose traceback is followed     *)
(* iteration by iteration                                                  *)
(***************************************************************************)
\* GlobalAlign.__init__ up to the call of _trace_back: the type check, the
\* assignments and the whole of _cal_score_table.
GlobalAlign_init_and_cal_score_table ==
    LET self == GlobalAlign_object(seq_left, seq_top, scores)
        last_row == BioSeq_len(seq_left)
        last_col == BioSeq_len(seq_top)
    IN /\ global_align[1].pc = "new"
       /\ IF ~isinstance_BioSeq(seq_left) \/ ~isinstance_BioSeq(seq_top)
          THEN global_align' = [global_align EXCEPT ![1] =
                   [@ EXCEPT !.pc = "raised",
                             !.error = "TypeError: Object should be bd.BioSeq."]]
          ELSE global_align' = [global_align EXCEPT ![1] =
                   [self EXCEPT
                       !.score_table = GlobalAlign_cal_score_table_from(self, 0, 0),
                       !.row = last_row, !.col = last_col,
                       !.pc = "trace_back",
                       !.cur_cell = <<last_row, last_col>>]]
       /\ UNCHANGED <<seq_left, seq_top, scores, local_align, other_than_align>>

TraceBackNext ==
    \/ GlobalAlign_init_and_cal_score_table
    \/ GlobalAlign_trace_back(1)

\* The interpreter runs the while loop of _trace_back to its exit: an
\* iteration that can be taken is taken.
SpecTraceBack ==
    Init /\ [][TraceBackNext]_vars /\ WF_vars(GlobalAlign_trace_back(1))

(***************************************************************************)
(* binary_search: eagle/Search/binary_search.py and                        *)
(* src/foal/Search/binary_search.py                                        *)
(***************************************************************************)
\* Lists have at most MaxSeqLen items drawn from 1..MaxVal; targets range
\* over 0..MaxVal + 1, so that a target may lie below or above every item.
MaxSeqLen == 4
MaxVal == 3

\* The lists and targets of tests/Search/test_binary_search.py.
TestSortedList == <<1, 2, 5, 6, 9>>
TestUnsortedList == <<2, 1, 6, 3, 8>>
TestTargets == {2, 10, 3}

\* The two modules that define binary_search.
Implementations == {"eagle", "foal"}

\* Sequence[index] for a non-negative 0-based index.
list_getitem(Sequence, index) == Sequence[index + 1]

\* _is_nondecreasing_sorted of src/foal/Search/binary_search.py
is_nondecreasing_sorted(Sequence) ==
    \A i \in 0..(Len(Sequence) - 2) :
        list_getitem(Sequence, i) <= list_getitem(Sequence, i + 1)

\* math.floor((head + end) / 2)
math_floor_half(head, end) == (head + end) \div 2

\* A call of binary_search that has not run its first statement.
binary_search_call(impl, Sequence, target) ==
    [impl |-> impl, Sequence |-> Sequence, target |-> target, pc |-> "call",
     head |-> 0, end |-> 0, middle |-> 0, result |-> None, error |-> ""]

\* The statements before the while loop: the sortedness check (foal only)
\* and the initialisation of head, end and middle.
binary_search_enter(s) ==
    IF s.impl = "foal" /\ ~is_nondecreasing_sorted(s.Sequence)
    THEN [s EXCEPT !.pc = "raised",
                   !.error = "ValueError: Sequence should be a sorted list (nondecreasing order)"]
    ELSE [s EXCEPT !.pc = "loop",
                   !.head = 0,
                   !.end = Len(s.Sequence) - 1,
                   !.middle = math_floor_half(0, Len(s.Sequence) - 1)]

\* The loop whose first elif assigns head = middle.
binary_search_iteration_head_at_middle(s) ==
    IF ~(s.head <= s.end)
    THEN [s EXCEPT !.pc = "returned", !.result = -1]
    ELSE IF list_getitem(s.Sequence, s.middle) = s.target
    THEN [s EXCEPT !.pc = "returned", !.result = s.middle]
    ELSE IF list_getitem(s.Sequence, s.middle) < s.target
    THEN [s EXCEPT !.head = s.middle,
                   !.middle = math_floor_half(s.middle, s.end)]
    ELSE IF list_getitem(s.Sequence, s.middle) > s.target
    THEN [s EXCEPT !.end = s.middle - 1,
                   !.middle = math_floor_half(s.head, s.middle - 1)]
    ELSE s

\* One test of the while condition: an iteration of the loop, or the
\* return -1 after it.
binary_search_iteration(s) ==
    IF ~(s.head <= s.end)
    THEN [s EXCEPT !.pc = "returned", !.result = -1]
    ELSE IF list_getitem(s.Sequence, s.middle) = s.target
    THEN [s EXCEPT !.pc = "returned", !.result = s.middle]
    ELSE IF list_getitem(s.Sequence, s.middle) < s.target
    THEN [s EXCEPT !.head = s.middle + 1,
                   !.middle = math_floor_half(s.middle + 1, s.end)]
    ELSE IF list_getitem(s.Sequence, s.middle) > s.target
    THEN [s EXCEPT !.end = s.middle - 1,
                   !.middle = math_floor_half(s.head, s.middle - 1)]
    ELSE s

Search_enter ==
    /\ search.pc = "call"
    /\ search' = binary_search_enter(search)
    /\ UNCHANGED <<seq_left, seq_top, scores, global_align, local_align,
                   any_order, bst, dij>>

Search_iteration ==
    /\ search.pc = "loop"
    /\ search' = binary_search_iteration(search)
    /\ UNCHANGED <<seq_left, seq_top, scores, global_align, local_align,
                   any_order, bst, dij>>

SearchLists == UNION {[1..n -> 1..MaxVal] : n \in 0..MaxSeqLen}

SearchInit ==
    /\ \E impl \in Implementations :
          \/ \E Sequence \in SearchLists, target \in 0..(MaxVal + 1) :
                search = binary_search_call(impl, Sequence, target)
          \/ \E Sequence \in {TestSortedList, TestUnsortedList},
                target \in TestTargets :
                search = binary_search_call(impl, Sequence, target)
    /\ seq_left = None
    /\ seq_top = None
    /\ scores = None
    /\ global_align = None
    /\ local_align = None
    /\ any_order = None
    /\ bst = None
    /\ dij = None

SearchNext == Search_enter \/ Search_iteration

SpecSearch == SearchInit /\ [][SearchNext]_vars

\* A call that has started keeps running until it returns or raises.
SpecSearchFair == SpecSearch /\ WF_vars(SearchNext)

(***************************************************************************)
(* foal.tree.binary_search_tree: Node and BinarySearchTree                 *)
(***************************************************************************)
\* The values put into a tree are 1..MaxTreeVal.
MaxTreeVal == 4

\* A Node object is referred to by the 1-tuple of the value it was created
\* with; `nodes` maps the references of the live Node objects to their
\* attributes.  None is the reference to no node.
Ref(value) == <<value>>

\* Node.__init__ followed by the assignment of its parent.
Node(value, parent) ==
    [value |-> value, left |-> None, right |-> None, parent |-> parent]

\* The heap once the Node object n is no longer referenced.
Drop(nodes, n) == [m \in DOMAIN nodes \ {n} |-> nodes[m]]

\* BinarySearchTree.__init__
BinarySearchTree_new == [root |-> None, nodes |-> <<>>]

\* Node.insert (the values are integers, so the else branch for a node
\* whose value is None is not taken).
RECURSIVE Node_insert(_, _, _)
Node_insert(nodes, self, value) ==
    LET node == nodes[self]
    IN IF value < node.value
       THEN IF node.left = None
            THEN [nodes EXCEPT ![self].left = Ref(value)]
                     @@ (Ref(value) :> Node(value, self))
            ELSE Node_insert(nodes, node.left, value)
       ELSE IF value > node.value
       THEN IF node.right = None
            THEN [nodes EXCEPT ![self].right = Ref(value)]
                     @@ (Ref(value) :> Node(value, self))
            ELSE Node_insert(nodes, node.right, value)
       ELSE nodes

\* Node._get: the reference of the node that holds value, or None.
RECURSIVE Node_get(_, _, _)
Node_get(nodes, self, value) ==
    LET node == nodes[self]
    IN IF node.value = value
       THEN self
       ELSE IF node.value > value /\ node.left # None
       THEN Node_get(nodes, node.left, value)
       ELSE IF node.value < value /\ node.right # None
       THEN Node_get(nodes, node.right, value)
       ELSE None

\* Node.search
Node_search(nodes, self, value) == Node_get(nodes, self, value) # None

Node_is_left_child(nodes, self) ==
    /\ nodes[self].parent # None
    /\ nodes[nodes[self].parent].left = self

Node_is_right_child(nodes, self) ==
    /\ nodes[self].parent # None
    /\ nodes[nodes[self].parent].right = self

Node_is_leaf(nodes, self) ==
    ~(nodes[self].left # None \/ nodes[self].right # None)

Node_has_left_child(nodes, self) == nodes[self].left # None

Node_has_right_child(nodes, self) == nodes[self].right # None

Node_has_child(nodes, self) ==
    Node_has_left_child(nodes, self) \/ Node_has_right_child(nodes, self)

Node_is_parent(nodes, self) ==
    nodes[self].parent # None /\ Node_has_child(nodes, self)

Node_is_root(nodes, self) == ~(nodes[self].parent # None)

\* Node._display: the values it prints, in order.
RECURSIVE Node_display(_, _)
Node_display(nodes, self) ==
    (IF nodes[self].left # None
     THEN Node_display(nodes, nodes[self].left) ELSE <<>>)
    \o <<nodes[self].value>>
    \o (IF nodes[self].right # None
        THEN Node_display(nodes, nodes[self].right) ELSE <<>>)

\* BinarySearchTree.insert
BinarySearchTree_insert(self, value) ==
    IF self.root # None
    THEN [self EXCEPT !.nodes = Node_insert(self.nodes, self.root, value)]
    ELSE [root |-> Ref(value), nodes |-> (Ref(value) :> Node(value, None))]

\* BinarySearchTree.display: the values printed, and the text printed
\* instead when the tree is empty.
BinarySearchTree_display(self) ==
    IF self.root # None
    THEN [values |-> Node_display(self.nodes, self.root), text |-> ""]
    ELSE [values |-> <<>>, text |-> "Binary Search Tree is empty.\n\n"]

\* BinarySearchTree.search
BinarySearchTree_search(self, value) ==
    IF self.root = None
    THEN FALSE
    ELSE Node_search(self.nodes, self.root, value)

\* BinarySearchTree.get
BinarySearchTree_get(self, value) ==
    IF self.root = None
    THEN None
    ELSE Node_get(self.nodes, self.root, value)

\* The leftmost node of the subtree of `node`.
RECURSIVE most_left_node(_, _)
most_left_node(nodes, node) ==
    IF nodes[node].left # None
    THEN most_left_node(nodes, nodes[node].left)
    ELSE node

\* _move_left_children_to_right that detaches the left subtree of node_ref
\* without attaching it below the right subtree.
move_left_children_to_right_detach_only(nodes, node_ref) ==
    [nodes EXCEPT ![node_ref].left = None]

\* _move_left_children_to_right, for a node_ref with both children (its
\* callers test this before the call, so its ValueError is not raised).
move_left_children_to_right(nodes, node_ref) ==
    LET most_left == most_left_node(nodes, nodes[node_ref].right)
    IN [nodes EXCEPT ![most_left].left = nodes[node_ref].left,
                     ![nodes[node_ref].left].parent = most_left,
                     ![node_ref].left = None]

\* BinarySearchTree._delete_root; the node deleted is referenced by nothing
\* afterwards (its right attribute is left holding the class Node).
BinarySearchTree_delete_root(self, value) ==
    LET cur_node == BinarySearchTree_get(self, value)
        nodes == self.nodes
    IN IF ~Node_has_child(nodes, self.root)
       THEN [root |-> None, nodes |-> Drop(nodes, cur_node)]
       ELSE IF Node_has_left_child(nodes, self.root)
               /\ ~Node_has_right_child(nodes, self.root)
       THEN [root |-> nodes[cur_node].left,
             nodes |-> Drop([nodes EXCEPT ![nodes[cur_node].left].parent = None,
                                          ![cur_node].left = None], cur_node)]
       ELSE IF ~Node_has_left_child(nodes, self.root)
               /\ Node_has_right_child(nodes, self.root)
       THEN [root |-> nodes[cur_node].right,
             nodes |-> Drop([nodes EXCEPT ![nodes[cur_node].right].parent = None,
                                          ![cur_node].right = None], cur_node)]
       ELSE LET moved == move_left_children_to_right(nodes, self.root)
            IN [root |-> moved[cur_node].right,
                nodes |-> Drop([moved EXCEPT ![moved[cur_node].right].parent = None],
                               cur_node)]

\* BinarySearchTree._delete_parent
BinarySearchTree_delete_parent(self, value) ==
    LET cur_node == BinarySearchTree_get(self, value)
        nodes == self.nodes
        prefer_heir_child ==
            IF nodes[cur_node].right # None
            THEN nodes[cur_node].right ELSE nodes[cur_node].left
        relinked ==
            IF Node_has_left_child(nodes, cur_node)
               /\ ~Node_has_right_child(nodes, cur_node)
            THEN [nodes EXCEPT ![prefer_heir_child].parent = nodes[cur_node].parent,
                               ![cur_node].left = None]
            ELSE IF ~Node_has_left_child(nodes, cur_node)
                    /\ Node_has_right_child(nodes, cur_node)
            THEN [nodes EXCEPT ![prefer_heir_child].parent = nodes[cur_node].parent,
                               ![cur_node].right = None]
            ELSE IF Node_has_left_child(nodes, cur_node)
                    /\ Node_has_right_child(nodes, cur_node)
            THEN [move_left_children_to_right(nodes, cur_node) EXCEPT
                               ![prefer_heir_child].parent = nodes[cur_node].parent,
                               ![cur_node].right = None]
            ELSE nodes
        unlinked ==
            IF Node_is_left_child(relinked, cur_node)
            THEN [relinked EXCEPT ![relinked[cur_node].parent].left = prefer_heir_child,
                                  ![cur_node].parent = None]
            ELSE IF Node_is_right_child(relinked, cur_node)
            THEN [relinked EXCEPT ![relinked[cur_node].parent].right = prefer_heir_child,
                                  ![cur_node].parent = None]
            ELSE relinked
    IN [root |-> self.root, nodes |-> Drop(unlinked, cur_node)]

\* BinarySearchTree._delete_leaf
BinarySearchTree_delete_leaf(self, value) ==
    LET cur_node == BinarySearchTree_get(self, value)
        nodes == self.nodes
        unlinked ==
            IF Node_is_left_child(nodes, cur_node)
            THEN [nodes EXCEPT ![nodes[cur_node].parent].left = None]
            ELSE IF Node_is_right_child(nodes, cur_node)
            THEN [nodes EXCEPT ![nodes[cur_node].parent].right = None]
            ELSE nodes
    IN [root |-> self.root, nodes |-> Drop(unlinked, cur_node)]

\* BinarySearchTree.delete: whether it raises ValueError, and the tree it
\* leaves.
BinarySearchTree_delete(self, value) ==
    LET cur_node == BinarySearchTree_get(self, value)
    IN IF cur_node = None
       THEN [raised |-> TRUE, tree |-> self]
       ELSE IF Node_is_root(self.nodes, cur_node)
       THEN [raised |-> FALSE, tree |-> BinarySearchTree_delete_root(self, value)]
       ELSE IF Node_is_leaf(self.nodes, cur_node)
       THEN [raised |-> FALSE, tree |-> BinarySearchTree_delete_leaf(self, value)]
       ELSE IF Node_is_parent(self.nodes, cur_node)
       THEN [raised |-> FALSE, tree |-> BinarySearchTree_delete_parent(self, value)]
       ELSE [raised |-> FALSE, tree |-> self]

\* _walk_equal
RECURSIVE walk_equal(_, _, _, _)
walk_equal(nodes_left, ptr_left, nodes_right, ptr_right) ==
    IF ptr_left # None /\ ptr_right # None
    THEN LET compare_val ==
                 nodes_left[ptr_left].value = nodes_right[ptr_right].value
             compare_left ==
                 walk_equal(nodes_left, nodes_left[ptr_left].left,
                            nodes_right, nodes_right[ptr_right].left)
             compare_right ==
                 walk_equal(nodes_left, nodes_left[ptr_left].right,
                            nodes_right, nodes_right[ptr_right].right)
         IN compare_val /\ compare_left /\ compare_right
    ELSE ptr_left = ptr_right

\* BinarySearchTree.__eq__ with another BinarySearchTree: "True", "False", or
\* the exception raised.  When a root is None the first test fails and the
\* second evaluates self.root ^ other.root, an operator neither Node nor
\* NoneType defines; the third test is never reached.
BinarySearchTree_eq(self, other) ==
    IF self.root # None /\ other.root # None
    THEN IF walk_equal(self.nodes, self.root, other.nodes, other.root)
         THEN "True" ELSE "False"
    ELSE "TypeError: unsupported operand type(s) for ^"

\* BinarySearchTree.__ne__: not self.__eq__(other)
BinarySearchTree_ne(self, other) ==
    IF BinarySearchTree_eq(self, other) = "True"
    THEN "False"
    ELSE IF BinarySearchTree_eq(self, other) = "False"
    THEN "True"
    ELSE BinarySearchTree_eq(self, other)

\* What the client's last call was and what it returned or raised.
Call(op, tree, value, result) ==
    [op |-> op, tree |-> tree, value |-> value, result |-> result]

\* tree k .insert(value)
BST_insert(k, value) ==
    /\ bst' = [tree |-> [bst.tree EXCEPT
                            ![k] = BinarySearchTree_insert(@, value)],
               inserted |-> [bst.inserted EXCEPT ![k] = @ \cup {value}],
               last |-> Call("insert", k, value, "None")]
    /\ UNCHANGED <<seq_left, seq_top, scores, global_align, local_align,
                   any_order, search, dij>>

\* tree k .delete(value)
BST_delete(k, value) ==
    LET res == BinarySearchTree_delete(bst.tree[k], value)
    IN /\ bst' = IF res.raised
                 THEN [bst EXCEPT !.last =
                          Call("delete", k, value, "ValueError: No such value")]
                 ELSE [tree |-> [bst.tree EXCEPT ![k] = res.tree],
                       inserted |-> [bst.inserted EXCEPT ![k] = @ \ {value}],
                       last |-> Call("delete", k, value, "None")]
       /\ UNCHANGED <<seq_left, seq_top, scores, global_align, local_align,
                      any_order, search, dij>>

\* tree k .display()
BST_display(k) ==
    /\ bst' = [bst EXCEPT !.last =
                  Call("display", k, 0, BinarySearchTree_display(bst.tree[k]))]
    /\ UNCHANGED <<seq_left, seq_top, scores, global_align, local_align,
                   any_order, search, dij>>

\* tree k .search(value)
BST_search(k, value) ==
    /\ bst' = [bst EXCEPT !.last =
                  Call("search", k, value,
                       BinarySearchTree_search(bst.tree[k], value))]
    /\ UNCHANGED <<seq_left, seq_top, scores, global_align, local_align,
                   any_order, search, dij>>

\* tree k == the other tree
BST_eq(k) ==
    /\ bst' = [bst EXCEPT !.last =
                  Call("eq", k, 0,
                       BinarySearchTree_eq(bst.tree[k], bst.tree[3 - k]))]
    /\ UNCHANGED <<seq_left, seq_top, scores, global_align, local_align,
                   any_order, search, dij>>

\* tree k != the other tree
BST_ne(k) ==
    /\ bst' = [bst EXCEPT !.last =
                  Call("ne", k, 0,
                       BinarySearchTree_ne(bst.tree[k], bst.tree[3 - k]))]
    /\ UNCHANGED <<seq_left, seq_top, scores, global_align, local_align,
                   any_order, search, dij>>

\* Two empty trees; `inserted` records, for each tree, the values inserted
\* and not deleted since.
TreeInit ==
    /\ bst = [tree |-> <<BinarySearchTree_new, BinarySearchTree_new>>,
              inserted |-> <<{}, {}>>,
              last |-> Call("new", 0, 0, "None")]
    /\ seq_left = None
    /\ seq_top = None
    /\ scores = None
    /\ global_align = None
    /\ local_align = None
    /\ any_order = None
    /\ search = None
    /\ dij = None

\* A client that inserts into, deletes from, displays and searches tree 1.
TreeNext ==
    \/ \E value \in 1..MaxTreeVal : BST_insert(1, value)
    \/ \E value \in 1..MaxTreeVal : BST_delete(1, value)
    \/ BST_display(1)
    \/ \E value \in 0..(MaxTreeVal + 1) : BST_search(1, value)

SpecTree == TreeInit /\ [][TreeNext]_vars

\* A client that changes both trees and compares them.
TreePairNext ==
    \/ \E k \in 1..2, value \in 1..MaxTreeVal : BST_insert(k, value)
    \/ \E k \in 1..2, value \in 1..MaxTreeVal : BST_delete(k, value)
    \/ \E k \in 1..2 : BST_eq(k)
    \/ \E k \in 1..2 : BST_ne(k)

SpecTreePair == TreeInit /\ [][TreePairNext]_vars

(***************************************************************************)
(* foal.graph: DirectedGraph and Dijkstra                                  *)
(***************************************************************************)
\* Graphs have nodes 1..MaxNode and at most MaxEdges edges, whose weights
\* are drawn from EdgeWeights.
MaxNode == 4
MaxEdges == 4
EdgeWeights == {1, 3}

\* float('inf'): larger than the weight of any path of the bounded graphs.
Inf == 1000

\* parent_weight + weight on floats.
float_add(a, b) == IF a = Inf THEN Inf ELSE a + b

\* DirectedEdge.__init__: the edge <<first node, last node, weight>>.
DirectedEdge(node_name_1, node_name_2, weight) ==
    <<node_name_1, node_name_2, weight>>

DirectedEdge_get_first_node(edge) == edge[1]

DirectedEdge_get_last_node(edge) == edge[2]

Edge_get_weight(edge) == edge[3]

\* DirectedGraph.__init__ and a Dijkstra object not constructed yet.
DirectedGraph_new ==
    [pc |-> "build", error |-> "", V |-> {}, E |-> {},
     min_weights |-> <<>>, child_to_cal |-> <<>>, child_already_cal |-> {}]

\* DirectedGraph.get_start_node, as a set.
DirectedGraph_get_start_node(self) ==
    self.V \ {DirectedEdge_get_last_node(edge) : edge \in self.E}

\* DirectedGraph.get_end_node, as a set.
DirectedGraph_get_end_node(self) ==
    self.V \ {DirectedEdge_get_first_node(edge) : edge \in self.E}

\* DirectedGraph.get_edges_start_with
DirectedGraph_get_edges_start_with(self, node) ==
    {edge \in self.E : DirectedEdge_get_first_node(edge) = node}

\* The orders in which a for loop may iterate over a set.
IterationOrders(S) ==
    {s \in [1..Cardinality(S) -> S] :
        \A i, j \in 1..Cardinality(S) : i # j => s[i] # s[j]}

\* Dijkstra._update_child_to_cal
Dijkstra_update_child_to_cal(self, node) ==
    IF node \notin self.child_already_cal
    THEN [self EXCEPT !.child_to_cal = Append(@, node)]
    ELSE self

\* Dijkstra._update_min_weights
Dijkstra_update_min_weights(self, cur_node, child_node, weight) ==
    LET parent_weight == self.min_weights[cur_node].weight
        new_weight == float_add(parent_weight, weight)
        old_weight == self.min_weights[child_node].weight
    IN IF new_weight < old_weight
       THEN [self EXCEPT !.min_weights[child_node] =
                [parent |-> cur_node, weight |-> new_weight]]
       ELSE self

\* Dijkstra._update_child_already_cal
Dijkstra_update_child_already_cal(self, node) ==
    [self EXCEPT !.child_already_cal = @ \cup {node}]

\* The for loop of Dijkstra._cal_weight_to_child over the edges in the
\* order `edges`, from its i-th edge on.
RECURSIVE Dijkstra_cal_weight_to_child_loop(_, _, _, _)
Dijkstra_cal_weight_to_child_loop(self, cur_node, edges, i) ==
    IF i > Len(edges)
    THEN self
    ELSE LET weight == Edge_get_weight(edges[i])
             last_node == DirectedEdge_get_last_node(edges[i])
         IN Dijkstra_cal_weight_to_child_loop(
                Dijkstra_update_min_weights(
                    Dijkstra_update_child_to_cal(self, last_node),
                    cur_node, last_node, weight),
                cur_node, edges, i + 1)

\* Dijkstra._cal_weight_to_child, iterating over the edges in the order
\* `edges`.
Dijkstra_cal_weight_to_child(self, cur_node, edges) ==
    IF Len(edges) = 0
    THEN self
    ELSE Dijkstra_update_child_already_cal(
             Dijkstra_cal_weight_to_child_loop(self, cur_node, edges, 1),
             cur_node)

\* graph.add_edges(node1, node2, weight) for two different nodes.
DirectedGraph_add_edges(node1, node2, weight) ==
    /\ dij.pc = "build"
    /\ Cardinality(dij.E) < MaxEdges
    /\ node1 # node2
    /\ dij' = [dij EXCEPT !.V = @ \cup {node1, node2},
                          !.E = @ \cup {DirectedEdge(node1, node2, weight)}]
    /\ UNCHANGED <<seq_left, seq_top, scores, global_align, local_align,
                   any_order, search, bst>>

\* Dijkstra(graph); the messages of the errors are abridged.
Dijkstra_init ==
    /\ dij.pc = "build"
    /\ dij' =
         IF \E edge \in dij.E : ~(Edge_get_weight(edge) >= 0)
         THEN [dij EXCEPT !.pc = "raised",
                  !.error = "ValueError: weights should be positive float."]
         ELSE IF Cardinality(DirectedGraph_get_start_node(dij)) = 0
         THEN [dij EXCEPT !.pc = "raised",
                  !.error = "ValueError: graph does not have starting node."]
         ELSE IF Cardinality(DirectedGraph_get_end_node(dij)) = 0
         THEN [dij EXCEPT !.pc = "raised",
                  !.error = "ValueError: graph does not have ending node."]
         ELSE [dij EXCEPT !.pc = "ready",
                  !.min_weights = [n \in 1..MaxNode |->
                                      [parent |-> None, weight |-> Inf]],
                  !.child_to_cal = <<>>,
                  !.child_already_cal = {}]
    /\ UNCHANGED <<seq_left, seq_top, scores, global_align, local_align,
                   any_order, search, bst>>

\* The statements of Dijkstra.cal_shortest_path() before its while loop;
\* get_start_node()[0] is the first item of a tuple made from a set.
Dijkstra_cal_shortest_path ==
    /\ dij.pc = "ready"
    /\ \E node \in DirectedGraph_get_start_node(dij) :
          dij' = [Dijkstra_update_child_to_cal(dij, node) EXCEPT
                     !.pc = "loop",
                     !.min_weights[node].weight = 0]
    /\ UNCHANGED <<seq_left, seq_top, scores, global_align, local_align,
                   any_order, search, bst>>

\* One test of the while condition of cal_shortest_path: an iteration, or
\* the return.
Dijkstra_cal_shortest_path_loop ==
    /\ dij.pc = "loop"
    /\ IF Len(dij.child_to_cal) = 0
       THEN dij' = [dij EXCEPT !.pc = "done"]
       ELSE LET node == Head(dij.child_to_cal)
                popped == [dij EXCEPT !.child_to_cal = Tail(@)]
            IN \E edges \in IterationOrders(
                               DirectedGraph_get_edges_start_with(dij, node)) :
                  dij' = Dijkstra_cal_weight_to_child(popped, node, edges)
    /\ UNCHANGED <<seq_left, seq_top, scores, global_align, local_align,
                   any_order, search, bst>>

GraphInit ==
    /\ dij = DirectedGraph_new
    /\ seq_left = None
    /\ seq_top = None
    /\ scores = None
    /\ global_align = None
    /\ local_align = None
    /\ any_order = None
    /\ search = None
    /\ bst = None

GraphNext ==
    \/ \E node1, node2 \in 1..MaxNode, weight \in EdgeWeights :
          DirectedGraph_add_edges(node1, node2, weight)
    \/ Dijkstra_init
    \/ Dijkstra_cal_shortest_path
    \/ Dijkstra_cal_shortest_path_loop

SpecGraph == GraphInit /\ [][GraphNext]_vars

(***************************************************************************)
(* Properties                                                              *)
(***************************************************************************)
Range(s) == {s[i] : i \in 1..Len(s)}

\* The list with every '-' deleted.
StripGaps(s) == SelectSeq(s, LAMBDA ch : ch # "-")

\* Both constructor arguments are sequence objects.
ValidArgs == isinstance_BioSeq(seq_left) /\ isinstance_BioSeq(seq_top)

\* Both are sequence objects without a '-' character.
GapFreeArgs ==
    /\ ValidArgs
    /\ "-" \notin Range(seq_left.data)
    /\ "-" \notin Range(seq_top.data)

\* The bottom-right cell of a filled table.
FinalCell(self) ==
    self.score_table[<<BioSeq_len(self.seq_left), BioSeq_len(self.seq_top)>>]

\* C1: for gap-free sequences, the two lists GlobalAlign.get_align_results
\* returns have equal length, and deleting '-' from the left (top) list
\* gives back the left (top) sequence.
C1_GlobalAlignmentRebuildsInputs ==
    \A i \in 1..2 :
        (GapFreeArgs /\ global_align[i].pc = "done") =>
            LET res == GlobalAlign_get_align_results(global_align[i])
            IN /\ Len(res[1]) = Len(res[2])
               /\ StripGaps(res[1]) = global_align[i].seq_left.data
               /\ StripGaps(res[2]) = global_align[i].seq_top.data

C1_Witness ==
    /\ GapFreeArgs
    /\ global_align[1].pc = "done"
    /\ BioSeq_len(seq_left) = MaxLen
    /\ BioSeq_len(seq_top) >= 1
    /\ "-" \in Range(global_align[1].align_left)
    /\ "-" \in Range(global_align[1].align_top)

\* C2: with the default scores, GlobalAlign(BioSeq('gattaga'),
\* BioSeq('gcatgct')) returns top GCA-T-GCT and left G-ATTAG-A.
C2_DocstringExample ==
    (/\ seq_left = DocLeft
     /\ seq_top = DocTop
     /\ scores = DefaultScores
     /\ global_align[1].pc = "done") =>
        /\ global_align[1].align_top
              = <<"G", "C", "A", "-", "T", "-", "G", "C", "T">>
        /\ global_align[1].align_left
              = <<"G", "-", "A", "T", "T", "A", "G", "-", "A">>

C2_Witness ==
    /\ seq_left = DocLeft
    /\ seq_top = DocTop
    /\ scores = DefaultScores
    /\ global_align[1].pc = "done"

\* The LocalAlign constructor was called with sequence objects and has
\* ended, by returning or by raising.
LocalEnded == ValidArgs /\ local_align.pc \in {"done", "raised"}

\* C3: with valid sequence objects, neither GlobalAlign nor LocalAlign
\* raises during matrix construction or traceback.
C3_ConstructionNeverRaises ==
    ValidArgs =>
        /\ \A i \in 1..2 : global_align[i].pc # "raised"
        /\ local_align.pc # "raised"

\* The positions of a table that hold a ScoreCell.
Cells(table) == {p \in DOMAIN table : table[p].is_cell}

\* Position p is filled before position q by the row-major loops.
RowMajorBefore(p, q) == p[1] < q[1] \/ (p[1] = q[1] /\ p[2] < q[2])

\* The cells of the table whose score is the largest in the table.
MaxScoreCells(table) ==
    {p \in Cells(table) : \A q \in Cells(table) : table[q].score <= table[p].score}

\* C4: after LocalAlign construction the maximal set lists exactly the cells
\* with the maximum score of the matrix, each once, in row-major order.
C4_MaximalSetIsExact ==
    LocalEnded =>
        LET max_score_cell == local_align.max_score_cell
            expected == MaxScoreCells(local_align.score_table)
        IN /\ Range(max_score_cell) = expected
           /\ Len(max_score_cell) = Cardinality(expected)
           /\ \A k, l \in 1..Len(max_score_cell) :
                k < l => RowMajorBefore(max_score_cell[k], max_score_cell[l])

\* The pair spans both sequences of the aligner end to end.
SpansInputs(self, pair) ==
    /\ Len(pair[1]) = Len(pair[2])
    /\ StripGaps(pair[1]) = self.seq_left.data
    /\ StripGaps(pair[2]) = self.seq_top.data

\* C5: for gap-free sequences LocalAlign.get_align_results returns pairs,
\* each of which spans both inputs end to end.
C5_LocalResultsSpanInputs ==
    (GapFreeArgs /\ LocalEnded) =>
        /\ local_align.pc = "done"
        /\ \A k \in 1..Len(LocalAlign_get_align_results(local_align)) :
              SpansInputs(local_align,
                          LocalAlign_get_align_results(local_align)[k])

\* C6: LocalAlign.get_align_results returns at least one pair, one per cell
\* of the maximal set and in its order, and the cells of the maximal set
\* all have the same score.
C6_OneResultPerMaximalCell ==
    LocalEnded =>
        LET self == local_align
            res == LocalAlign_get_align_results(self)
        IN /\ self.pc = "done"
           /\ Len(res) >= 1
           /\ Len(res) = Len(self.max_score_cell)
           /\ \A k \in 1..Len(res) :
                res[k] = LocalAlign_trace_back_start_one_cell(self,
                              self.max_score_cell[k])
           /\ \A k, l \in 1..Len(self.max_score_cell) :
                self.score_table[self.max_score_cell[k]].score
                    = self.score_table[self.max_score_cell[l]].score

C8_FinalScoreSymmetric ==
    (global_align[1].pc = "done" /\ global_align[2].pc = "done") =>
        FinalCell(global_align[1]).score = FinalCell(global_align[2]).score

C8_Witness ==
    /\ global_align[1].pc = "done"
    /\ global_align[2].pc = "done"
    /\ BioSeq_len(seq_left) = MaxLen
    /\ BioSeq_len(seq_top) = 1
    /\ scores.gap_open # scores.gap_extend
    /\ FinalCell(global_align[1]).score < 0

\* C9 as stated: GlobalAlign(B, A) returns as (left, top) the (top, left)
\* pair of GlobalAlign(A, B).
C9_AlignmentSwapsSides ==
    (global_align[1].pc = "done" /\ global_align[2].pc = "done") =>
        GlobalAlign_get_align_results(global_align[2])
            = <<global_align[1].align_top, global_align[1].align_left>>

\* The traceback path from position pos passes an interior cell whose top
\* and left candidates tie strictly above its diagonal candidate.
RECURSIVE TopLeftTieOnPath(_, _)
TopLeftTieOnPath(self, pos) ==
    LET cell == self.score_table[pos]
        sc == GlobalAlign_scores(self, pos[1], pos[2])
    IN IF cell.prev_cell = None
       THEN FALSE
       ELSE \/ /\ pos[1] >= 1
               /\ pos[2] >= 1
               /\ sc[2][1] = sc[3][1]
               /\ sc[2][1] > sc[1][1]
            \/ TopLeftTieOnPath(self, cell.prev_cell)

\* C9 amended: the sides swap whenever the traceback of GlobalAlign(A, B)
\* passes no cell whose top and left candidates tie above the diagonal one.
C9_AlignmentSwapsSidesWithoutTopLeftTie ==
    (/\ global_align[1].pc = "done"
     /\ global_align[2].pc = "done"
     /\ ~TopLeftTieOnPath(global_align[1],
            <<BioSeq_len(seq_left), BioSeq_len(seq_top)>>)) =>
        GlobalAlign_get_align_results(global_align[2])
            = <<global_align[1].align_top, global_align[1].align_left>>

C9_Witness ==
    /\ global_align[1].pc = "done"
    /\ global_align[2].pc = "done"
    /\ ~TopLeftTieOnPath(global_align[1],
            <<BioSeq_len(seq_left), BioSeq_len(seq_top)>>)
    /\ seq_left.data # seq_top.data
    /\ "-" \in Range(global_align[1].align_top)
    /\ "-" \notin Range(global_align[1].align_left)
    /\ global_align[2].align_left = global_align[1].align_top

\* C10: with a left or top argument that is not a sequence object, the
\* constructors raise before the matrix is allocated; no matrix, maximal
\* set or alignment exists.
C10_NonSequenceArgumentRaisesFirst ==
    (seq_left \in NonSequenceArgs \/ seq_top \in NonSequenceArgs) =>
        /\ \A i \in 1..2 :
              /\ global_align[i].pc \in {"new", "raised"}
              /\ global_align[i].pc = "raised" =>
                    global_align[i].error = "TypeError: Object should be bd.BioSeq."
              /\ DOMAIN global_align[i].score_table = {}
              /\ global_align[i].align_left = None
              /\ global_align[i].align_top = None
        /\ local_align.pc \in {"new", "raised"}
        /\ local_align.pc = "raised" =>
              local_align.error = "TypeError: Object should be bd.BioSeq."
        /\ DOMAIN local_align.score_table = {}
        /\ local_align.max_score_cell = None
        /\ local_align.best_align = None

C10_Witness ==
    /\ seq_left \in NonSequenceArgs
    /\ isinstance_BioSeq(seq_top)
    /\ \A i \in 1..2 : global_align[i].pc = "raised"
    /\ local_align.pc = "raised"

\* A list of n '-' characters.
Gaps(n) == [k \in 1..n |-> "-"]

\* C11: when exactly one sequence is empty, GlobalAlign.get_align_results
\* returns only '-' on the side of the empty sequence and the whole other
\* sequence, in order, on the other side; when both are empty it returns
\* two empty lists and the bottom-right cell has score 0.
C11_GlobalAlignWithEmptySequence ==
    \A i \in 1..2 :
        (ValidArgs /\ global_align[i].pc = "done") =>
            LET self == global_align[i]
                left_len == BioSeq_len(self.seq_left)
                top_len == BioSeq_len(self.seq_top)
                res == GlobalAlign_get_align_results(self)
            IN /\ (left_len = 0 /\ top_len > 0) =>
                     /\ res[1] = Gaps(top_len)
                     /\ res[2] = self.seq_top.data
               /\ (top_len = 0 /\ left_len > 0) =>
                     /\ res[2] = Gaps(left_len)
                     /\ res[1] = self.seq_left.data
               /\ (left_len = 0 /\ top_len = 0) =>
                     /\ res = <<<<>>, <<>>>>
                     /\ FinalCell(self).score = 0

C11_Witness ==
    /\ ValidArgs
    /\ BioSeq_len(seq_left) = 0
    /\ BioSeq_len(seq_top) = MaxLen
    /\ global_align[1].pc = "done"
    /\ global_align[2].pc = "done"
    /\ global_align[1].align_left = Gaps(MaxLen)
    /\ global_align[2].align_top = Gaps(MaxLen)
    /\ global_align[1].align_top = seq_top.data

\* C12: when either sequence is empty, LocalAlign construction ends with
\* the maximal set holding exactly the cell (0,0), whose score is 0.
C12_EmptyInputMaximalSet ==
    (/\ LocalEnded
     /\ BioSeq_len(seq_left) = 0 \/ BioSeq_len(seq_top) = 0) =>
        /\ local_align.pc = "done"
        /\ local_align.max_score_cell = <<<<0, 0>>>>
        /\ local_align.score_table[<<0, 0>>].score = 0

\* Every predecessor link of the table leads to a different cell that is
\* neither below nor to the right of the cell holding the link.
PredecessorsPrecede(table) ==
    \A p \in Cells(table) :
        table[p].prev_cell # None =>
            LET prev_cell == table[table[p].prev_cell]
            IN /\ table[p].prev_cell # p
               /\ prev_cell.is_cell
               /\ <<prev_cell.row, prev_cell.column>> # <<table[p].row, table[p].column>>
               /\ prev_cell.row <= table[p].row
               /\ prev_cell.column <= table[p].column

RowMajorFillAgrees ==
    (ValidArgs /\ global_align[1].pc \in {"trace_back", "done"}) =>
        global_align[1].score_table
            = GlobalAlign_cal_score_table_from(
                  GlobalAlign_object(seq_left, seq_top, scores), 0, 0)

\* C15: a cell computed in any order that respects its dependencies (left,
\* top and top-left neighbour computed first) has the score and the
\* predecessor the row-major fill of _cal_score_table gives it.
C15_AnyDependencyOrderAgrees ==
    \A p \in Cells(any_order.self.score_table) :
        /\ any_order.self.score_table[p].score = any_order.row_major[p].score
        /\ any_order.self.score_table[p].prev_cell
              = any_order.row_major[p].prev_cell

C15_Witness ==
    LET table == any_order.self.score_table
    IN /\ BioSeq_len(seq_left) = MaxLen
       /\ BioSeq_len(seq_top) = MaxLen
       /\ <<MaxLen, 1>> \in Cells(table)
       /\ <<0, MaxLen>> \notin Cells(table)
       /\ table[<<1, 1>>].prev_cell = <<0, 1>>

\* The value binary_search has to return: the index of an occurrence of the
\* target, or -1 when the target does not occur.
SearchResultCorrect ==
    IF \E i \in 0..(Len(search.Sequence) - 1) :
            list_getitem(search.Sequence, i) = search.target
    THEN /\ search.result \in 0..(Len(search.Sequence) - 1)
         /\ list_getitem(search.Sequence, search.result) = search.target
    ELSE search.result = -1

\* C16: on a nondecreasing sorted list of integers, binary_search (either
\* module) terminates and returns an index at which the target occurs, or
\* -1 when the target does not occur.
C16_BinarySearchFindsTarget ==
    is_nondecreasing_sorted(search.Sequence)
        ~> (search.pc = "returned" /\ SearchResultCorrect)

C16_Witness ==
    /\ search.Sequence = TestSortedList
    /\ search.impl = "eagle"
    /\ search.pc = "returned"
    /\ \/ search.target = 2 /\ search.result = 1
       \/ search.target = 10 /\ search.result = -1 /\ search.head = 5

\* C17: eagle.Search.binary_search raises ValueError when the list is not
\* sorted in nondecreasing order, whatever the target.
C17_EagleRaisesOnUnsortedList ==
    (/\ search.impl = "eagle"
     /\ ~is_nondecreasing_sorted(search.Sequence)
     /\ search.pc \in {"returned", "raised"}) =>
        /\ search.pc = "raised"
        /\ search.error = "ValueError: Sequence should be a sorted list (nondecreasing order)"

\* The values of the set in increasing order.
SortedSeq(S) ==
    CHOOSE s \in [1..Cardinality(S) -> S] :
        \A i, j \in 1..Cardinality(S) : i < j => s[i] < s[j]

\* Every reference stored in the tree leads to a live node, and parent
\* links mirror child links.
TreeWellFormed(t) ==
    /\ t.root # None => (t.root \in DOMAIN t.nodes /\ t.nodes[t.root].parent = None)
    /\ \A n \in DOMAIN t.nodes :
          /\ t.nodes[n].left # None =>
                (t.nodes[n].left \in DOMAIN t.nodes
                    /\ t.nodes[t.nodes[n].left].parent = n)
          /\ t.nodes[n].right # None =>
                (t.nodes[n].right \in DOMAIN t.nodes
                    /\ t.nodes[t.nodes[n].right].parent = n)
          /\ t.nodes[n].parent # None => t.nodes[n].parent \in DOMAIN t.nodes
          /\ n # t.root => t.nodes[n].parent # None

TreesWellFormed == \A k \in 1..2 : TreeWellFormed(bst.tree[k])

\* C18: after any sequence of insert and delete calls, display prints the
\* values inserted and not deleted since, each once and in strictly
\* increasing order, and search(v) is True exactly for those values; a
\* display or search call just made returned exactly that.
C18_TreeHoldsInsertedValues ==
    /\ BinarySearchTree_display(bst.tree[1]).values = SortedSeq(bst.inserted[1])
    /\ \A v \in 0..(MaxTreeVal + 1) :
          BinarySearchTree_search(bst.tree[1], v) <=> v \in bst.inserted[1]
    /\ bst.last.op = "display" =>
          bst.last.result.values = SortedSeq(bst.inserted[1])
    /\ bst.last.op = "search" =>
          bst.last.result = (bst.last.value \in bst.inserted[1])

C18_Witness ==
    /\ bst.last.op = "delete"
    /\ bst.last.value = 2
    /\ bst.last.result = "None"
    /\ bst.inserted[1] = (1..MaxTreeVal) \ {2}
    /\ bst.tree[1].root = Ref(3)
    /\ BinarySearchTree_display(bst.tree[1]).values = SortedSeq(bst.inserted[1])
    /\ bst.tree[1].nodes[Ref(3)].left = Ref(1)

\* The two trees have the same shape with equal values at every position:
\* the same nodes with the same children.
SameShapeAndValues(a, b) ==
    /\ a.root = b.root
    /\ DOMAIN a.nodes = DOMAIN b.nodes
    /\ \A n \in DOMAIN a.nodes :
          /\ a.nodes[n].value = b.nodes[n].value
          /\ a.nodes[n].left = b.nodes[n].left
          /\ a.nodes[n].right = b.nodes[n].right

\* C19: a == b returns True exactly when the two trees have the same shape
\* with equal values (True for two empty trees, False when exactly one is
\* empty), a != b returns the negation, and neither comparison raises.
C19_EqualityIsStructural ==
    LET a == bst.tree[bst.last.tree]
        b == bst.tree[3 - bst.last.tree]
    IN /\ bst.last.op = "eq" =>
            bst.last.result
                = (IF SameShapeAndValues(a, b) THEN "True" ELSE "False")
       /\ bst.last.op = "ne" =>
            bst.last.result
                = (IF SameShapeAndValues(a, b) THEN "False" ELSE "True")

\* On two non-empty trees the comparison is the structural one.
EqualityOfNonEmptyTrees ==
    LET a == bst.tree[bst.last.tree]
        b == bst.tree[3 - bst.last.tree]
    IN (bst.last.op \in {"eq", "ne"} /\ a.root # None /\ b.root # None) =>
          bst.last.result
              = (IF SameShapeAndValues(a, b) = (bst.last.op = "eq")
                 THEN "True" ELSE "False")

\* The smaller of two weights.
MinWeight(a, b) == IF a < b THEN a ELSE b

\* The least weight of a directed path of at most k edges from start to
\* each node (Inf when there is none).
RECURSIVE LeastPathWeights(_, _, _)
LeastPathWeights(self, start, k) ==
    IF k = 0
    THEN [n \in 1..MaxNode |-> IF n = start THEN 0 ELSE Inf]
    ELSE LET before == LeastPathWeights(self, start, k - 1)
             RECURSIVE Relax(_, _)
             Relax(edges, weight) ==
                 IF edges = {}
                 THEN weight
                 ELSE LET edge == CHOOSE e \in edges : TRUE
                      IN Relax(edges \ {edge},
                               MinWeight(weight,
                                         float_add(before[edge[1]], edge[3])))
         IN [n \in 1..MaxNode |->
                Relax({e \in self.E : e[2] = n}, before[n])]

\* C20: when the graph has a single start node, cal_shortest_path() leaves
\* for every node reachable from it the least total weight of a directed
\* path from the start node.
C20_DijkstraFindsLeastWeights ==
    (dij.pc = "done" /\ Cardinality(DirectedGraph_get_start_node(dij)) = 1) =>
        LET start == CHOOSE n \in DirectedGraph_get_start_node(dij) : TRUE
            least == LeastPathWeights(dij, start, MaxNode)
        IN \A n \in dij.V :
              least[n] # Inf => dij.min_weights[n].weight = least[n]

\* The top and left neighbours of position p that lie in the table.
GapCandidates(table, p) ==
    {<<p[1] - 1, p[2]>>, <<p[1], p[2] - 1>>} \cap DOMAIN table

\* The candidate cell was itself entered by a gap step along the axis of
\* the step from the candidate into the target position.
EnteredBySameAxisGap(table, cand, target) ==
    /\ table[cand].prev_cell # None
    /\ cand[1] - table[cand].prev_cell[1] = target[1] - cand[1]
    /\ cand[2] - table[cand].prev_cell[2] = target[2] - cand[2]

\* A GlobalAlign object whose score table exists.
HasTable(self) == self.pc \in {"cal_score_table", "trace_back", "done"}

\* The constructor call of GlobalAlign object i has returned and the client
\* has not made its next call yet: the table and the alignment of the
\* object are final (no action changes an object whose call has returned).
Returned(i) ==
    /\ global_align[i].pc = "done"
    /\ i = 1 => global_align[2].pc = "new"
    /\ i = 2 => local_align.pc = "new"

\* C21: the gap step from the top or left neighbour into a cell is charged
\* gap_extend only when that neighbour was itself entered by a gap step
\* along the same axis; in every other case (no predecessor, entered
\* diagonally, entered by a gap step on the other axis) it is charged
\* gap_open.  _is_gap_open returning True is the charge of gap_open.
C21_GapExtendOnlyInsideRun ==
    \A i \in 1..2 :
        HasTable(global_align[i]) =>
            LET self == global_align[i]
                table == self.score_table
            IN \A p \in Cells(table) : \A cand \in GapCandidates(table, p) :
                  GlobalAlign_is_gap_open(self, p[1], p[2], table[cand])
                      = ~EnteredBySameAxisGap(table, cand, p)

\* The positions of a table with row >= 1 and column >= 1.
Interior(table) == {p \in Cells(table) : p[1] >= 1 /\ p[2] >= 1}

\* The larger of two integers.
Max2(a, b) == IF a >= b THEN a ELSE b

\* The three candidate values of the recurrence at interior position p,
\* as a function from the neighbour position to the candidate value.
Candidates(self, p) ==
    LET table == self.score_table
        diag == <<p[1] - 1, p[2] - 1>>
        top == <<p[1] - 1, p[2]>>
        left == <<p[1], p[2] - 1>>
        fromDiag == table[diag].score
                    + (IF self.seq_left.data[p[1]] = self.seq_top.data[p[2]]
                       THEN self.match ELSE self.mismatch)
        fromTop == table[top].score
                   + (IF GlobalAlign_is_gap_open(self, p[1], p[2], table[top])
                      THEN self.gap_open ELSE self.gap_extend)
        fromLeft == table[left].score
                    + (IF GlobalAlign_is_gap_open(self, p[1], p[2], table[left])
                       THEN self.gap_open ELSE self.gap_extend)
    IN (diag :> fromDiag) @@ (top :> fromTop) @@ (left :> fromLeft)

\* The maximum of the three candidate values at p.
RecurrenceMax(self, p) ==
    LET cand == Candidates(self, p)
    IN Max2(cand[<<p[1] - 1, p[2] - 1>>],
            Max2(cand[<<p[1] - 1, p[2]>>], cand[<<p[1], p[2] - 1>>]))

\* C22: every interior cell of a GlobalAlign table stores the maximum of
\* its three candidates (diagonal + match or mismatch, top and left + the
\* gap charge _is_gap_open selects), and its predecessor is one of the
\* three neighbours whose candidate equals that maximum.
C22_InteriorCellIsRecurrenceMax ==
    \A i \in 1..2 :
        Returned(i) =>
            LET self == global_align[i]
                table == self.score_table
            IN \A p \in Interior(table) :
                  /\ table[p].score = RecurrenceMax(self, p)
                  /\ table[p].prev_cell \in DOMAIN Candidates(self, p)
                  /\ Candidates(self, p)[table[p].prev_cell] = table[p].score

\* A finished table has an interior cell reached from its left neighbour,
\* whose diagonal candidate is smaller than the stored score.
C22_Witness ==
    \E i \in 1..2 :
        /\ global_align[i].pc = "done"
        /\ \E p \in Interior(global_align[i].score_table) :
              /\ global_align[i].score_table[p].prev_cell = <<p[1], p[2] - 1>>
              /\ Candidates(global_align[i], p)[<<p[1] - 1, p[2] - 1>>]
                     < global_align[i].score_table[p].score

\* The neighbour the claimed tie-break selects among the candidates cand of
\* position p: the diagonal one if it reaches the maximum, else the top
\* one if it does, else the left one.
TieBreakWinner(cand, p) ==
    LET diag == <<p[1] - 1, p[2] - 1>>
        top == <<p[1] - 1, p[2]>>
        left == <<p[1], p[2] - 1>>
        best == Max2(cand[diag], Max2(cand[top], cand[left]))
    IN IF cand[diag] = best THEN diag
       ELSE IF cand[top] = best THEN top
       ELSE left

\* The maximum of the candidate values cand of position p.
CandidateMax(cand, p) ==
    Max2(cand[<<p[1] - 1, p[2] - 1>>],
         Max2(cand[<<p[1] - 1, p[2]>>], cand[<<p[1], p[2] - 1>>]))

\* Two or more candidates of position p reach the maximum.
TiedForMax(cand, p) ==
    Cardinality({q \in DOMAIN cand : cand[q] = CandidateMax(cand, p)}) >= 2

\* The three candidate values of the LocalAlign recurrence at position p.
LocalCandidates(self, p) ==
    LET table == self.score_table
        diag == <<p[1] - 1, p[2] - 1>>
        top == <<p[1] - 1, p[2]>>
        left == <<p[1], p[2] - 1>>
        fromDiag == table[diag].score
                    + (IF self.seq_left.data[p[1]] = self.seq_top.data[p[2]]
                       THEN self.match ELSE self.mismatch)
        fromTop == table[top].score
                   + (IF LocalAlign_is_gap_open(self, p[1], p[2], table[top])
                      THEN self.gap_open ELSE self.gap_extend)
        fromLeft == table[left].score
                    + (IF LocalAlign_is_gap_open(self, p[1], p[2], table[left])
                       THEN self.gap_open ELSE self.gap_extend)
    IN (diag :> fromDiag) @@ (top :> fromTop) @@ (left :> fromLeft)

\* In a GlobalAlign table, an interior cell whose candidates tie for the
\* maximum has the diagonal neighbour as predecessor if it is among the
\* tied ones, otherwise the top neighbour.
GlobalTieBreak ==
    \A i \in 1..2 :
        Returned(i) =>
            LET self == global_align[i]
            IN \A p \in Interior(self.score_table) :
                  TiedForMax(Candidates(self, p), p) =>
                      self.score_table[p].prev_cell
                          = TieBreakWinner(Candidates(self, p), p)

\* The same for the cells a LocalAlign table holds, where a tie for a
\* negative maximum leaves no predecessor at all.
LocalTieBreak ==
    local_align.score_table # None =>
        LET self == local_align
        IN \A p \in Interior(self.score_table) :
              (TiedForMax(LocalCandidates(self, p), p)
                  /\ CandidateMax(LocalCandidates(self, p), p) >= 0) =>
                  self.score_table[p].prev_cell
                      = TieBreakWinner(LocalCandidates(self, p), p)

C24_NoPredecessorOnEdges ==
    \A i \in 1..2 :
        HasTable(global_align[i]) =>
            \A p \in Cells(global_align[i].score_table) :
                (global_align[i].score_table[p].prev_cell = None)
                    <=> (p[1] = 0 \/ p[2] = 0)

\* C24 as the code has it: the origin (0,0) is the only cell without a
\* predecessor; a cell of row 0 is linked to its left neighbour, a cell of
\* column 0 to its top neighbour, and a cell with row >= 1 and column >= 1
\* to one of its diagonal, top and left neighbours.
C24_NoPredecessorAtOriginOnly ==
    \A i \in 1..2 :
        Returned(i) =>
            LET table == global_align[i].score_table
            IN \A p \in Cells(table) :
                  /\ (table[p].prev_cell = None) <=> (p = <<0, 0>>)
                  /\ (p[1] = 0 /\ p[2] >= 1) =>
                        table[p].prev_cell = <<0, p[2] - 1>>
                  /\ (p[1] >= 1 /\ p[2] = 0) =>
                        table[p].prev_cell = <<p[1] - 1, 0>>
                  /\ (p[1] >= 1 /\ p[2] >= 1) =>
                        table[p].prev_cell \in {<<p[1] - 1, p[2] - 1>>,
                                                <<p[1] - 1, p[2]>>,
                                                <<p[1], p[2] - 1>>}

\* A finished table with cells in row 0, in column 0 and inside.
C24_Witness ==
    \E i \in 1..2 :
        /\ global_align[i].pc = "done"
        /\ <<2, 2>> \in Cells(global_align[i].score_table)
        /\ global_align[i].score_table[<<0, 2>>].prev_cell = <<0, 1>>
        /\ global_align[i].score_table[<<2, 0>>].prev_cell = <<1, 0>>

\* Every stored cell of row 0 or column 0 of the LocalAlign table has score
\* 0 and no predecessor.
LocalEdgesZero ==
    local_align.score_table # None =>
        \A p \in Cells(local_align.score_table) :
            (p[1] = 0 \/ p[2] = 0) =>
                /\ local_align.score_table[p].score = 0
                /\ local_align.score_table[p].prev_cell = None

\* The LocalAlign table holds a cell of row 0 or column 0 besides the origin.
LocalEdgesZeroSeen ==
    /\ local_align.score_table # None
    /\ \E p \in Cells(local_align.score_table) : p # <<0, 0>>

\* Once construction has ended, every position with row >= 1 and
\* column >= 1 holds a cell; a negative recurrence maximum is stored as
\* score 0 without predecessor, any other maximum is stored with the
\* neighbour it comes from.
LocalInteriorFloored ==
    (LocalEnded /\ local_align.score_table # None) =>
        LET self == local_align
            table == self.score_table
        IN \A p \in DOMAIN table :
              (p[1] >= 1 /\ p[2] >= 1) =>
                  LET cand == LocalCandidates(self, p)
                      best == CandidateMax(cand, p)
                  IN /\ table[p].is_cell
                     /\ (table[p].prev_cell = None) <=> (best < 0)
                     /\ best < 0 => table[p].score = 0
                     /\ best >= 0 =>
                           /\ table[p].score = best
                           /\ table[p].prev_cell \in DOMAIN cand
                           /\ cand[table[p].prev_cell] = best

\* C25: in a LocalAlign score table every cell in row 0 or column 0 has
\* score 0 and no predecessor; an interior cell has no predecessor exactly
\* when the maximum of its three recurrence candidates is negative, and its
\* score is then 0; an interior cell whose maximum is 0 or more keeps that
\* score and its predecessor.
C25_LocalFloorAndEdges == LocalEdgesZero /\ LocalInteriorFloored

\* row + column of the cell the traceback of object i stands on.
TraceBackDistance(self) == self.cur_cell[1] + self.cur_cell[2]

\* The traceback of object i is under way and has not left its loop.
InTraceBack(self) == self.pc = "trace_back"

\* Every iteration of the traceback loop moves to the diagonal, top or left
\* neighbour and appends exactly one character to each of the two lists.
TraceBackStep ==
    \A i \in 1..2 :
        (InTraceBack(global_align[i]) /\ InTraceBack(global_align'[i])
            /\ global_align'[i] # global_align[i]) =>
            LET before == global_align[i]
                after == global_align'[i]
            IN /\ <<before.cur_cell[1] - after.cur_cell[1],
                    before.cur_cell[2] - after.cur_cell[2]>>
                      \in {<<1, 1>>, <<1, 0>>, <<0, 1>>}
               /\ TraceBackDistance(after) < TraceBackDistance(before)
               /\ Len(after.seq_left_aling) = Len(before.seq_left_aling) + 1
               /\ Len(after.seq_top_aling) = Len(before.seq_top_aling) + 1

\* The number of iterations made so far and the distance still to go never
\* exceed len(left) + len(top) together; the loop is left at the origin.
TraceBackBounded ==
    \A i \in 1..2 :
        LET self == global_align[i]
        IN /\ InTraceBack(self) =>
                /\ Len(self.seq_left_aling) = Len(self.seq_top_aling)
                /\ Len(self.seq_left_aling) + TraceBackDistance(self)
                       <= BioSeq_len(self.seq_left) + BioSeq_len(self.seq_top)
           /\ self.pc = "done" =>
                /\ self.cur_cell = <<0, 0>>
                /\ Len(self.align_left) = Len(self.align_top)
                /\ Len(self.align_left)
                       <= BioSeq_len(self.seq_left) + BioSeq_len(self.seq_top)

\* C26: the GlobalAlign traceback starts at the bottom-right cell, decreases
\* row + column at every step, emits exactly one column per step (diagonal,
\* vertical or horizontal move), and terminates at the origin (0,0) after
\* at most len(left) + len(top) steps.
C26_TraceBackTerminatesAtOrigin ==
    /\ [][TraceBackStep]_vars
    /\ []TraceBackBounded
    /\ \A i \in 1..2 :
          InTraceBack(global_align[i]) ~>
              (global_align[i].pc = "done" /\ global_align[i].cur_cell = <<0, 0>>)

\* A traceback that has ended after a diagonal, a vertical and a horizontal
\* step.
C26_Witness ==
    \E i \in 1..2 :
        /\ global_align[i].pc = "done"
        /\ Len(global_align[i].align_left) = 3
        /\ "-" \in Range(global_align[i].align_left)
        /\ "-" \in Range(global_align[i].align_top)

\* The list a with '-' added at its left end up to length n.
PadOuterLeft(a, n) == Gaps(n - Len(a)) \o a

\* The list a with '-' added at its right end up to length n.
PadOuterRight(a, n) == a \o Gaps(n - Len(a))

\* The result the claimed extension gives for the traceback that starts
\* at the maximal cell start: the prefixes before the cell where the
\* traceback stops, padded at their outer end, the traced core, and the
\* suffixes after the maximal cell, padded at their outer end.
PaddedAroundCore(self, start) ==
    LET walk == LocalAlign_trace_back_loop(self, start, <<>>, <<>>)
        left == self.seq_left.data
        top == self.seq_top.data
        r0 == walk.end_point[1]
        c0 == walk.end_point[2]
        r1 == start[1]
        c1 == start[2]
        before == Max2(r0, c0)
        after == Max2(Len(left) - r1, Len(top) - c1)
    IN << PadOuterLeft(SubSeq(left, 1, r0), before)
              \o Reverse(walk.left)
              \o PadOuterRight(SubSeq(left, r1 + 1, Len(left)), after),
          PadOuterLeft(SubSeq(top, 1, c0), before)
              \o Reverse(walk.top)
              \o PadOuterRight(SubSeq(top, c1 + 1, Len(top)), after) >>

\* C27: LocalAlign returns results, and in every one of them the columns
\* before the traced core pair the prefixes left[0..r0-1] and top[0..c0-1]
\* from the core outward with '-' only at the leftmost end of the shorter
\* side, and the columns after the core pair the suffixes left[r1..] and
\* top[c1..] from the core outward with '-' only at the rightmost end of the
\* shorter side ((r0,c0) the cell where the traceback stopped, (r1,c1) the
\* maximal cell).
C27_LocalExtensionPadsOuterEnds ==
    LocalEnded =>
        /\ local_align.pc = "done"
        /\ Len(local_align.best_align) = Len(local_align.max_score_cell)
        /\ \A k \in 1..Len(local_align.best_align) :
              local_align.best_align[k]
                  = PaddedAroundCore(local_align, local_align.max_score_cell[k])

\* Column k of the alignment pair holds a character of each sequence.
TwoCharacters(left, top, k) == left[k] # "-" /\ top[k] # "-"

\* The score of column k of the alignment pair read by itself: match or
\* mismatch for two characters; for a gap column gap_extend when the column
\* before it holds two characters, gap_open when it is the first column or
\* follows another gap column.
ColumnScore(self, left, top, k) ==
    IF TwoCharacters(left, top, k)
    THEN IF left[k] = top[k] THEN self.match ELSE self.mismatch
    ELSE IF k > 1 /\ TwoCharacters(left, top, k - 1)
    THEN self.gap_extend
    ELSE self.gap_open

\* The sum of the scores of the first k columns.
RECURSIVE ReScore(_, _, _, _)
ReScore(self, left, top, k) ==
    IF k = 0
    THEN 0
    ELSE ReScore(self, left, top, k - 1) + ColumnScore(self, left, top, k)

\* C28 as stated, for all sequences: the score of the bottom-right cell of
\* a GlobalAlign table equals the score of the returned alignment re-scored
\* column by column.
C28_FinalScoreIsRescoredAlignment ==
    \A i \in 1..2 :
        (ValidArgs /\ global_align[i].pc = "done") =>
            LET self == global_align[i]
            IN FinalCell(self).score
                   = ReScore(self, self.align_left, self.align_top,
                             Len(self.align_left))

\* C28 for sequences without the character '-': the score of the
\* bottom-right cell equals the score of the returned alignment re-scored
\* column by column (match or mismatch for two characters, gap_extend for a
\* gap column that follows a column of two characters, gap_open for any
\* other gap column).
C28_FinalScoreIsRescoredGapFreeAlignment ==
    \A i \in 1..2 :
        (GapFreeArgs /\ Returned(i)) =>
            LET self == global_align[i]
            IN FinalCell(self).score
                   = ReScore(self, self.align_left, self.align_top,
                             Len(self.align_left))

\* A returned alignment of gap-free sequences that opens with a gap column
\* and has a gap column right after a column of two characters, under
\* scores with gap_open # gap_extend.
C28_Witness ==
    \E i \in 1..2 :
        LET self == global_align[i]
        IN /\ GapFreeArgs
           /\ self.pc = "done"
           /\ self.gap_open # self.gap_extend
           /\ Len(self.align_left) >= 3
           /\ ~TwoCharacters(self.align_left, self.align_top, 1)
           /\ \E k \in 2..Len(self.align_left) :
                 /\ ~TwoCharacters(self.align_left, self.align_top, k)
                 /\ TwoCharacters(self.align_left, self.align_top, k - 1)

\* The scores of all global alignments of the first m characters of left
\* with the first n characters of top: an alignment ends with a column of
\* two characters (match or mismatch), a column with a gap in top, or a
\* column with a gap in left, and every gap character costs g.
RECURSIVE AlignmentScores(_, _, _, _, _)
AlignmentScores(left, top, params, m, n) ==
    IF m = 0 /\ n = 0
    THEN {0}
    ELSE (IF m > 0 /\ n > 0
          THEN {s + (IF left[m] = top[n] THEN params.match ELSE params.mismatch) :
                    s \in AlignmentScores(left, top, params, m - 1, n - 1)}
          ELSE {})
         \cup (IF m > 0
               THEN {s + params.gap_open :
                        s \in AlignmentScores(left, top, params, m - 1, n)}
               ELSE {})
         \cup (IF n > 0
               THEN {s + params.gap_open :
                        s \in AlignmentScores(left, top, params, m, n - 1)}
               ELSE {})

\* The largest element of a non-empty set of integers.
SetMax(S) == CHOOSE x \in S : \A y \in S : y <= x

\* C29: when gap_open and gap_extend are the same value g, the bottom-right
\* score of GlobalAlign(A, B) is the optimal Needleman-Wunsch score with
\* linear gap penalty g: the maximum over all global alignments of A and B
\* of the sum of match, mismatch and per-gap-character scores.
C29_LinearGapScoreIsOptimal ==
    \A i \in 1..2 :
        (ValidArgs /\ Returned(i)
            /\ scores.gap_open = scores.gap_extend) =>
            FinalCell(global_align[i]).score
                = SetMax(AlignmentScores(GlobalArgLeft(i).data, GlobalArgTop(i).data,
                                         scores,
                                         BioSeq_len(GlobalArgLeft(i)),
                                         BioSeq_len(GlobalArgTop(i))))

\* A finished call with gap_open = gap_extend on two different sequences of
\* length 2 whose alignments do not all have the same score.
C29_Witness ==
    \E i \in 1..2 :
        /\ ValidArgs
        /\ global_align[i].pc = "done"
        /\ scores.gap_open = scores.gap_extend
        /\ BioSeq_len(seq_left) = 2
        /\ BioSeq_len(seq_top) = 2
        /\ seq_left # seq_top
        /\ "-" \in Range(global_align[i].align_left)
        /\ Cardinality(AlignmentScores(seq_left.data, seq_top.data, scores, 2, 2)) > 1

\* No column of the printed lines has '-' on both sides, and a column
\* marked '|' holds the same character of both sequences.
NoGapAgainstGap(lines) ==
    \A k \in 1..Len(lines[2]) :
        /\ ~(lines[1][k] = "-" /\ lines[3][k] = "-")
        /\ lines[2][k] = "|" => (lines[1][k] # "-" /\ lines[1][k] = lines[3][k])

====
